---- MODULE Spec2Model ----
(***************************************************************************)
(* A model of ansi-three: the container codec (packet header, side data,   *)
(* delta-of-delta seek index), the encoder's container writer with its     *)
(* seek-table sampler, the player's Reader and the player's three threads  *)
(* (control, decoder, render).                                             *)
(*                                                                         *)
(* Each subsystem has its own specification over the shared variables:     *)
(*   SpecSeek    Reader::seek on a seek table                              *)
(*   SpecDelta   delta_encode / delta_decode                               *)
(*   SpecPacket  Packet::encode_into / Packet::decode_from                 *)
(*   SpecEncoder ANSIEncoder::process_packet with SeekTableEncoder         *)
(*   Spec        the player: PlayerControl, decoder thread, render_loop    *)
(* A specification leaves the variables of the other subsystems at their   *)
(* idle values.                                                            *)
(***************************************************************************)
EXTENDS Integers, Sequences, FiniteSets, TLC

VARIABLES
    \* the build: are arithmetic overflow checks compiled in (dev) or not (release)
    overflow_checks,
    \* ---- Reader (player/src/lib.rs)
    seektable,          \* Reader.seektable : Vec<SeekEntry>
    start_of_packets,   \* Reader.start_of_packets
    reader_pos,         \* stream position of Reader.reader
    seek_time,          \* argument of the last Reader::seek call
    seek_ret,           \* what that call returned
    spc,                \* "idle" | "done" | "panicked"
    \* ---- delta_encode / delta_decode (container/src/seek.rs)
    xs,                 \* the i64 sequence handed to delta_encode
    encoded,            \* the bytes delta_encode returned
    decoded,            \* the Vec<i64> delta_decode returned
    dpc,                \* "start" | "encoded" | "decoded" | "panicked" | "error"
    \* ---- Packet::encode_into / Packet::decode_from (container/src/lib.rs)
    pkt,                \* the Packet that is encoded
    wire,               \* the bytes encode_into wrote, followed by the payload
    wire_len,           \* the byte count encode_into returned
    pkt_out,            \* the Packet decode_from returned
    wire_pos,           \* bytes decode_from consumed
    ppc,                \* "start" | "encoded" | "decoded" | "error"
    \* ---- ANSIEncoder and SeekTableEncoder (encoder/src)
    encoders,           \* ANSIEncoder.encoders: the streams with a pipeline
    stream_packet_idx,  \* ANSIEncoder.stream_packet_idx
    bytes_written,      \* ANSIEncoder.bytes_written
    last_recorded,      \* SeekTableEncoder.last_recorded, milliseconds
    entries,            \* SeekTableEncoder.entries
    out,                \* the packets written to ANSIEncoder.out, in order
    epc,                \* "running" | "failed" | "panicked"
    src_last,           \* the frame source: last pts delivered per stream
    fed,                \* the frame source: packets delivered so far
    ingest_log,         \* history: one record per SeekTableEncoder::ingest call
    \* ---- the player (player/src/renderer.rs)
    play_status,        \* RendererState.play_status (the value under the mutex)
    current_time,       \* RendererState.current_time: Instant, ns
    video_time,         \* RendererState.video_time: Duration, ns
    subtitle_index,     \* RendererState.subtitle_index
    reader_lock,        \* holder of the Mutex around the Reader: "none" | "control"
    time_locks,         \* the guards seek() holds: subset of {"current_time", "video_time"}
    queue,              \* the channel: slots sent and not yet received, oldest first
    ring,               \* the headers left in the channel's slots, next slot to reuse first
    closed,             \* the Sender has been dropped
    reader_thread,      \* pc of the decoder thread
    send_slot,          \* header the decoder thread is about to store in its SendRef
    render_thread,      \* pc of the render thread
    slot,               \* render_loop: the RecvRef being rendered
    subs,               \* render_loop: subs
    output,             \* the frames written to `output`, in order
    control,            \* pc of the control thread
    old_state,          \* PlayerControl::seek: old_state
    seek_arg,           \* PlayerControl::seek: time
    ops,                \* input events handled by main so far
    seek_entry_status,  \* history: play_status when the running seek() was called
    seeks,              \* history: seek() calls started
    sub_log,            \* history: every Subtitle pushed to subs
    now,                \* the wall clock: what Instant::now() returns, ns
    pause_time,         \* PlayerControl.pause_time (always Some)
    wait_start,         \* PlayerControl::seek: wait_start
    frame,              \* render_loop: the frame in `slices` during sleep_until
    paused_at,          \* history: the wall time of the pause() that paused
    origin_at_pause,    \* history: current_time at that pause()
    claimed_origin,     \* history: origin_at_pause + the time paused, 0 if none
    pause_mark,         \* history: the frames written and where the render
                        \* thread stood when the status became Paused
    \* ---- a packet through the encoder's Pipeline and the player's Reader
    post_steps,         \* Pipeline.post_steps: the compressors, in order
    input_data,         \* the bytes the FFToAnsi stage makes of the input
    run_packet,         \* the AnsiPacket after Pipeline::run
    scratch,            \* ANSIEncoder.scratch after Pipeline::run
    insert_log,         \* history: the tags given to side_data.insert, in order
    pre_data,           \* history: the data the last compressor was given
    file_bytes,         \* the packet in the file: header, then payload
    read_result,        \* what read_packet_data_into returned, and the data
    plpc,               \* "idle" | "start" | "run" | "written" | "opened" | "read"
    \* ---- the palette built by colorful/build.rs
    theme,              \* main: theme, as the 16 colours to_24bit() gives
    palette,            \* main: palette
    reverse_palette,    \* main: reverse_palette
    inserted,           \* HashMap::from_iter: pairs taken from the iterator
    bpc,                \* "idle" | "palette" | "reverse" | "done"
    \* ---- ToAnsi::to_ansi (img2ansi/src/lib.rs)
    image,              \* self: [width, height, pixels]
    ansi_frame,         \* what was written to `frame`, in order
    last_upper,         \* to_ansi: last_upper
    last_lower,         \* to_ansi: last_lower
    ay,                 \* to_ansi: y
    ax,                 \* to_ansi: x
    apc,                \* "idle" | "row" | "cell" | "done"
    \* ---- PlayerControl::join
    join_pc,            \* "none" | "reader_thread" | "render_thread" | "returned"
    join_ret,           \* what join returned to its caller
    \* ---- the encoder's command line (encoder/src/main.rs)
    argv,               \* the options given: a value or "absent"
    cli,                \* main: cli = EncoderArgs::parse(), field by field
    cpc                 \* "idle" | "parse" | "done" | "error"

readerVars == <<seektable, start_of_packets, reader_pos, seek_time, seek_ret, spc>>

deltaVars == <<xs, encoded, decoded, dpc>>

pipelineVars == <<post_steps, input_data, run_packet, scratch, insert_log,
                  pre_data, file_bytes, read_result, plpc>>

paletteVars == <<theme, palette, reverse_palette, inserted, bpc>>

ansiVars == <<image, ansi_frame, last_upper, last_lower, ay, ax, apc>>

joinVars == <<join_pc, join_ret>>

argsVars == <<argv, cli, cpc>>

packetVars == <<pkt, wire, wire_len, pkt_out, wire_pos, ppc, pipelineVars,
                paletteVars, ansiVars, joinVars, argsVars>>

encoderVars == <<encoders, stream_packet_idx, bytes_written, last_recorded,
                 entries, out, epc, src_last, fed, ingest_log>>

playerVars == <<play_status, current_time, video_time, subtitle_index,
                reader_lock, time_locks, queue, ring, closed, reader_thread,
                send_slot, render_thread, slot, subs, output,
                control, old_state, seek_arg, ops, seek_entry_status, seeks,
                sub_log, now, pause_time, wait_start, frame, paused_at,
                origin_at_pause, claimed_origin, pause_mark>>

\* the clock and what is recorded of it
clockRest == <<now, frame, paused_at, origin_at_pause, claimed_origin, pause_mark>>

vars == <<overflow_checks, readerVars, deltaVars, packetVars, encoderVars,
          playerVars>>

(***************************************************************************)
(* Bounds of the model.                                                    *)
(***************************************************************************)
MaxEntries == 4          \* seek tables hold at most this many entries
IntBits == 8             \* width the model gives i64 (the code's is 64)
MaxLen == 3              \* longest sequence handed to delta_encode
WordBits == 24           \* width the model gives u64 (the code's is 64)
MaxPackets == 3          \* packets the frame source delivers to the encoder
QueueCap == 2            \* slots of the packet channel (the code's is 100)
MaxOps == 2              \* input events main handles after the first resume()
MaxTicks == 5            \* steps the wall clock makes
MaxSteps == 2            \* post-processors in a Pipeline (the code allows 8)
MaxWidth == 2            \* width of an image given to to_ansi
MaxHeight == 4           \* height of an image given to to_ansi

(***************************************************************************)
(* Small helpers.                                                          *)
(***************************************************************************)
Range(s) == {s[i] : i \in 1..Len(s)}

Pow2(n) == 2 ^ n

(***************************************************************************)
(* Reader::seek                                                            *)
(***************************************************************************)
\* SeekEntry { ts, location }
SeekEntry(ts, location) == [ts |-> ts, location |-> location]

\* core::slice::binary_search_by over key ts; indices are 0-based as in Rust,
\* the result is [ok, idx] for Ok(idx) / Err(idx).
RECURSIVE BinarySearchLoop(_, _, _, _)
BinarySearchLoop(tbl, time, base, size) ==
    IF size > 1
    THEN LET half == size \div 2
             mid  == base + half
         IN  BinarySearchLoop(tbl, time,
                              IF tbl[mid + 1].ts > time THEN base ELSE mid,
                              size - half)
    ELSE IF tbl[base + 1].ts = time
         THEN [ok |-> TRUE, idx |-> base]
         ELSE [ok |-> FALSE,
               idx |-> base + (IF tbl[base + 1].ts < time THEN 1 ELSE 0)]

binary_search_by_key(tbl, time) ==
    IF Len(tbl) = 0 THEN [ok |-> FALSE, idx |-> 0]
    ELSE BinarySearchLoop(tbl, time, 0, Len(tbl))

\* the index Reader::seek takes from the search: Ok(idx) => idx, Err(idx) => idx
SeekIndex(tbl, time) == binary_search_by_key(tbl, time).idx

\* Reader::seek(time): self.seektable[entry] panics when entry = len
Reader_seek(time) ==
    LET entry == SeekIndex(seektable, time) IN
    /\ seek_time' = time
    /\ IF entry >= Len(seektable)
       THEN /\ spc' = "panicked"
            /\ UNCHANGED <<reader_pos, seek_ret>>
       ELSE /\ reader_pos' = seektable[entry + 1].location + start_of_packets
            /\ seek_ret' = seektable[entry + 1].ts
            /\ spc' = "done"

(***************************************************************************)
(* SpecSeek: a Reader in state SeektablesRead, sought again and again.     *)
(***************************************************************************)
\* the entries of a table sampled at grid points S
RECURSIVE TableOf(_)
TableOf(S) ==
    IF S = {} THEN <<>>
    ELSE LET m == CHOOSE x \in S : \A y \in S : y <= x
         IN  Append(TableOf(S \ {m}), SeekEntry(m * 100000, m * 2048))

SeekTables == {TableOf(S) : S \in (SUBSET (0..(MaxEntries - 1))) \ {{}}}

\* the times sought: the sampled timestamps and the midpoints between them
SeekTimes == {k * 50000 : k \in 0..(2 * MaxEntries)}

ReaderIdle ==
    /\ seektable = <<>>
    /\ start_of_packets = 0
    /\ reader_pos = 0
    /\ seek_time = 0
    /\ seek_ret = 0
    /\ spc = "idle"

DeltaIdle ==
    /\ xs = <<>>
    /\ encoded = <<>>
    /\ decoded = <<>>
    /\ dpc = "start"

PipelineIdle ==
    /\ post_steps = <<>>
    /\ input_data = <<>>
    /\ run_packet = <<>>
    /\ scratch = <<>>
    /\ insert_log = <<>>
    /\ pre_data = <<>>
    /\ file_bytes = <<>>
    /\ read_result = <<>>
    /\ plpc = "idle"

PaletteIdle ==
    /\ theme = <<>>
    /\ palette = <<>>
    /\ reverse_palette = <<>>
    /\ inserted = 0
    /\ bpc = "idle"

AnsiIdle ==
    /\ image = <<>>
    /\ ansi_frame = <<>>
    /\ last_upper = <<>>
    /\ last_lower = <<>>
    /\ ay = 0
    /\ ax = 0
    /\ apc = "idle"

ArgsIdle ==
    /\ argv = <<>>
    /\ cli = <<>>
    /\ cpc = "idle"

JoinIdle ==
    /\ join_pc = "none"
    /\ join_ret = <<>>

PacketIdle ==
    /\ PipelineIdle
    /\ PaletteIdle
    /\ AnsiIdle
    /\ JoinIdle
    /\ ArgsIdle
    /\ pkt = <<>>
    /\ wire = <<>>
    /\ wire_len = 0
    /\ pkt_out = <<>>
    /\ wire_pos = 0
    /\ ppc = "start"

EncoderIdle ==
    /\ encoders = {}
    /\ stream_packet_idx = <<>>
    /\ bytes_written = 0
    /\ last_recorded = 0
    /\ entries = <<>>
    /\ out = <<>>
    /\ epc = "running"
    /\ src_last = <<>>
    /\ fed = 0
    /\ ingest_log = <<>>

PlayerIdle ==
    /\ play_status = "Paused"
    /\ current_time = 0
    /\ video_time = 0
    /\ subtitle_index = 255
    /\ reader_lock = "none"
    /\ time_locks = {}
    /\ queue = <<>>
    /\ ring = <<>>
    /\ closed = FALSE
    /\ reader_thread = "none"
    /\ send_slot = <<>>
    /\ render_thread = "none"
    /\ slot = <<>>
    /\ subs = <<>>
    /\ output = <<>>
    /\ control = "none"
    /\ old_state = "Paused"
    /\ seek_arg = 0
    /\ ops = 0
    /\ seek_entry_status = "Paused"
    /\ seeks = 0
    /\ sub_log = <<>>
    /\ now = 0
    /\ pause_time = 0
    /\ wait_start = 0
    /\ frame = <<>>
    /\ paused_at = 0
    /\ origin_at_pause = 0
    /\ claimed_origin = 0
    /\ pause_mark = <<>>

InitSeek ==
    /\ overflow_checks = FALSE
    /\ DeltaIdle
    /\ PacketIdle
    /\ EncoderIdle
    /\ PlayerIdle
    /\ seektable \in SeekTables
    /\ start_of_packets \in {0, 57}
    /\ reader_pos = start_of_packets
    /\ seek_time = 0
    /\ seek_ret = 0
    /\ spc = "idle"

SeekCall ==
    /\ spc # "panicked"
    /\ \E t \in SeekTimes : Reader_seek(t)
    /\ UNCHANGED <<seektable, start_of_packets, overflow_checks, deltaVars,
                   packetVars, encoderVars, playerVars>>

NextSeek == SeekCall

SpecSeek == InitSeek /\ [][NextSeek]_vars

\* the entries of tbl whose ts is at most t
AtMost(tbl, t) == {i \in 1..Len(tbl) : tbl[i].ts <= t}

\* C1: Reader::seek(t) on a non-empty table selects the entry with the
\* greatest ts <= t, returns its ts and leaves the byte reader at
\* start_of_packets + entry.location.
C1_SeekSelectsLowerOrEqual ==
    (spc \in {"done", "panicked"} /\ AtMost(seektable, seek_time) # {}) =>
        LET i == CHOOSE j \in AtMost(seektable, seek_time) :
                     \A k \in AtMost(seektable, seek_time) :
                         seektable[k].ts <= seektable[j].ts
        IN  /\ spc = "done"
            /\ seek_ret = seektable[i].ts
            /\ reader_pos = start_of_packets + seektable[i].location

(***************************************************************************)
(* i64 arithmetic.  `a - b` and `a += b` panic on overflow when the build  *)
(* has overflow checks and wrap (two's complement) when it has not.        *)
(***************************************************************************)
I64Min == -Pow2(IntBits - 1)
I64Max == Pow2(IntBits - 1) - 1

FitsI64(n) == I64Min <= n /\ n <= I64Max

WrapI64(n) == ((n - I64Min) % Pow2(IntBits)) + I64Min

(***************************************************************************)
(* integer_encoding: VarInt for i64 is zig-zag, then base-128 groups, low  *)
(* group first, bit 7 set on every byte but the last.                      *)
(***************************************************************************)
ZigZag(n) == IF n >= 0 THEN 2 * n ELSE -2 * n - 1

UnZigZag(u) == IF u % 2 = 0 THEN u \div 2 ELSE -((u + 1) \div 2)

RECURSIVE VarintBytes(_)
VarintBytes(u) ==
    IF u >= 128 THEN <<(u % 128) + 128>> \o VarintBytes(u \div 128)
    ELSE <<u>>

write_varint(w, n) == w \o VarintBytes(ZigZag(n))

\* VarIntReader::read_varint at cursor pos (1-based index of the next byte):
\* [ok, val, pos]; ok = FALSE is UnexpectedEof
RECURSIVE ReadVarintLoop(_, _, _, _)
ReadVarintLoop(bytes, pos, acc, weight) ==
    IF pos > Len(bytes) THEN [ok |-> FALSE, val |-> 0, pos |-> pos]
    ELSE IF bytes[pos] >= 128
         THEN ReadVarintLoop(bytes, pos + 1,
                             acc + (bytes[pos] - 128) * weight, weight * 128)
         ELSE [ok |-> TRUE,
               val |-> UnZigZag(acc + bytes[pos] * weight),
               pos |-> pos + 1]

read_varint(bytes, pos) == ReadVarintLoop(bytes, pos, 0, 1)

(***************************************************************************)
(* delta_encode / delta_decode                                             *)
(***************************************************************************)
\* the loop of delta_encode from element i on: [panic, out]
RECURSIVE DeltaEncodeLoop(_, _, _, _, _, _)
DeltaEncodeLoop(vals, i, prev_val, prev_delta, w, checks) ==
    IF i > Len(vals) THEN [panic |-> FALSE, out |-> w]
    ELSE LET delta == vals[i] - prev_val
             delta_of_delta == WrapI64(delta) - prev_delta
         IN  IF checks /\ (~FitsI64(delta) \/ ~FitsI64(delta_of_delta))
             THEN [panic |-> TRUE, out |-> w]
             ELSE DeltaEncodeLoop(vals, i + 1, vals[i], WrapI64(delta),
                                  write_varint(w, WrapI64(delta_of_delta)),
                                  checks)

\* delta_encode(iter): iter.next().unwrap() panics on an empty iterator
delta_encode(vals, checks) ==
    IF Len(vals) = 0 THEN [panic |-> TRUE, out |-> <<>>]
    ELSE DeltaEncodeLoop(vals, 2, vals[1], 0, write_varint(<<>>, vals[1]), checks)

\* the loop of delta_decode with n values still to read: [panic, ok, out, pos]
RECURSIVE DeltaDecodeLoop(_, _, _, _, _, _, _)
DeltaDecodeLoop(bytes, pos, n, prev_val, prev_delta, v, checks) ==
    IF n = 0 THEN [panic |-> FALSE, ok |-> TRUE, out |-> v, pos |-> pos]
    ELSE LET r == read_varint(bytes, pos)
             nd == prev_delta + r.val
             nv == prev_val + WrapI64(nd)
         IN  IF ~r.ok
             THEN [panic |-> FALSE, ok |-> FALSE, out |-> v, pos |-> r.pos]
             ELSE IF checks /\ (~FitsI64(nd) \/ ~FitsI64(nv))
             THEN [panic |-> TRUE, ok |-> FALSE, out |-> v, pos |-> r.pos]
             ELSE DeltaDecodeLoop(bytes, r.pos, n - 1, WrapI64(nv), WrapI64(nd),
                                  Append(v, WrapI64(nv)), checks)

\* delta_decode(input, len) reading from cursor pos; the loop runs len - 1
\* times (len >= 1 here: the callers pass the length of a non-empty table)
delta_decode(bytes, pos, len, checks) ==
    LET r == read_varint(bytes, pos) IN
    IF ~r.ok THEN [panic |-> FALSE, ok |-> FALSE, out |-> <<>>, pos |-> r.pos]
    ELSE DeltaDecodeLoop(bytes, r.pos, len - 1, r.val, 0, <<r.val>>, checks)

(***************************************************************************)
(* SpecDelta: one sequence encoded, then decoded.                          *)
(***************************************************************************)
\* the inputs: the extremes of i64, the values around zero and the values
\* around the one-byte / two-byte boundary of the varint
DeltaValues == {I64Min, I64Min + 1, -65, -64, -1, 0, 1, 63, 64, I64Max - 1, I64Max}

SeqsUpTo(S, n) == UNION {[1..k -> S] : k \in 1..n}

InitDelta ==
    /\ overflow_checks \in BOOLEAN
    /\ ReaderIdle
    /\ PacketIdle
    /\ EncoderIdle
    /\ PlayerIdle
    /\ xs \in SeqsUpTo(DeltaValues, MaxLen)
    /\ encoded = <<>>
    /\ decoded = <<>>
    /\ dpc = "start"

DeltaEncodeStep ==
    /\ dpc = "start"
    /\ LET r == delta_encode(xs, overflow_checks) IN
       IF r.panic
       THEN dpc' = "panicked" /\ UNCHANGED encoded
       ELSE dpc' = "encoded" /\ encoded' = r.out
    /\ UNCHANGED <<xs, decoded, overflow_checks, readerVars, packetVars, encoderVars,
                   playerVars>>

DeltaDecodeStep ==
    /\ dpc = "encoded"
    /\ LET r == delta_decode(encoded, 1, Len(xs), overflow_checks) IN
       IF r.panic THEN dpc' = "panicked" /\ UNCHANGED decoded
       ELSE IF ~r.ok THEN dpc' = "error" /\ UNCHANGED decoded
       ELSE dpc' = "decoded" /\ decoded' = r.out
    /\ UNCHANGED <<xs, encoded, overflow_checks, readerVars, packetVars, encoderVars,
                   playerVars>>

NextDelta == DeltaEncodeStep \/ DeltaDecodeStep

SpecDelta == InitDelta /\ [][NextDelta]_vars

\* C5: for every i64 sequence xs with at least one element,
\* delta_decode(delta_encode(xs), |xs|) = xs, also when the differences or
\* the differences of differences do not fit in i64: neither call fails
\* and the decoded sequence is xs.
C5_DeltaRoundTrip ==
    /\ dpc \notin {"panicked", "error"}
    /\ dpc = "decoded" => decoded = xs

\* the same round trip in a build without overflow checks
DeltaRoundTripWrapping ==
    ~overflow_checks => C5_DeltaRoundTrip

\* and, with overflow checks, for the sequences delta_encode accepts
DeltaRoundTripChecked ==
    /\ dpc # "error"
    /\ dpc = "decoded" => decoded = xs

(***************************************************************************)
(* Packet header and side data on the wire.  Bytes are 0..255.  Numbers    *)
(* of the model stay below 2^31; a decoded u64 above that is Big.          *)
(***************************************************************************)
Big == -1

\* byteorder write_u64::<LittleEndian>
LE8(n) ==
    <<n % 256, (n \div 256) % 256, (n \div 65536) % 256, (n \div 16777216) % 256,
      0, 0, 0, 0>>

\* byteorder read_u64::<LittleEndian> of the 8 bytes at pos
ReadLE8(bytes, pos) ==
    IF \/ \E i \in 4..7 : bytes[pos + i] # 0
       \/ bytes[pos + 3] >= 128
    THEN Big
    ELSE bytes[pos] + 256 * bytes[pos + 1] + 65536 * bytes[pos + 2]
         + 16777216 * bytes[pos + 3]

\* Duration::as_micros() as u64, the Duration held in nanoseconds
as_micros(d) == d \div 1000

\* Duration::from_micros
from_micros(us) == IF us = Big THEN Big ELSE us * 1000

\* PacketDataType as u8
DataTypeByte(t) ==
    CASE t = "Video" -> 0
      [] t = "Audio" -> 1
      [] t = "Subtitle" -> 2
      [] t = "Unknown" -> 3
      [] t = "Invalid" -> 255

\* PacketDataType::try_from(u8): "Err" is InvalidData
DataTypeFromByte(b) ==
    CASE b = 0 -> "Video"
      [] b = 1 -> "Audio"
      [] b = 2 -> "Subtitle"
      [] b = 3 -> "Unknown"
      [] b = 255 -> "Invalid"
      [] OTHER -> "Err"

PacketDataTypes == {"Video", "Audio", "Subtitle", "Unknown", "Invalid"}

\* side_data::COMPRESSION_METHOD and DECOMPRESSED_LEN: "CMPM", "DCLE"
COMPRESSION_METHOD == <<67, 77, 80, 77>>
DECOMPRESSED_LEN == <<68, 67, 76, 69>>

\* capacity of a side-data value: ArrayVec<u8, 256>
ValueCapacity == 256

\* the tag order of LiteMap with the comparison reversed
TagGreater(a, b) ==
    \E i \in 1..4 : a[i] > b[i] /\ \A j \in 1..(i - 1) : a[j] = b[j]

\* derive(Ord) on Tag { inner: [u8; 4] }: lexicographic
TagLess(a, b) ==
    \E i \in 1..4 : a[i] < b[i] /\ \A j \in 1..(i - 1) : a[j] = b[j]

\* LiteMap iteration: the keys in ascending order
RECURSIVE SortedTags(_)
SortedTags(T) ==
    IF T = {} THEN <<>>
    ELSE LET m == CHOOSE x \in T : \A y \in T \ {x} : TagLess(x, y)
         IN  <<m>> \o SortedTags(T \ {m})

\* SideData::encode_into: the entries after the count byte
RECURSIVE SideDataEntries(_, _)
SideDataEntries(sd, tags) ==
    IF tags = <<>> THEN <<>>
    ELSE LET key == Head(tags) IN
         key \o <<Len(sd[key]) % 256>> \o sd[key]
             \o SideDataEntries(sd, Tail(tags))

SideData_encode_into(sd) ==
    <<Cardinality(DOMAIN sd) % 256>> \o SideDataEntries(sd, SortedTags(DOMAIN sd))

\* the byte count SideData::encode_into returns
RECURSIVE SideDataTotal(_, _)
SideDataTotal(sd, tags) ==
    IF tags = <<>> THEN 0
    ELSE 5 + Len(sd[Head(tags)]) + SideDataTotal(sd, Tail(tags))

SideData_total_bytes(sd) == 1 + SideDataTotal(sd, SortedTags(DOMAIN sd))

\* SideData::decode_from, n entries still to read: [ok, data, pos];
\* ok = FALSE is UnexpectedEof
RECURSIVE SideDataDecodeLoop(_, _, _, _)
SideDataDecodeLoop(bytes, pos, n, data) ==
    IF n = 0 THEN [ok |-> TRUE, data |-> data, pos |-> pos]
    ELSE IF pos + 4 > Len(bytes)
         THEN [ok |-> FALSE, data |-> data, pos |-> pos]
    ELSE LET tag == SubSeq(bytes, pos, pos + 3)
             marker == bytes[pos + 4]
             buf == SubSeq(bytes, pos + 5, pos + 4 + marker)
         IN  IF pos + 4 + marker > Len(bytes)
             THEN [ok |-> FALSE, data |-> data, pos |-> pos]
             ELSE SideDataDecodeLoop(bytes, pos + 5 + marker, n - 1,
                                     (tag :> buf) @@ data)

SideData_decode_from(bytes, pos) ==
    IF pos > Len(bytes) THEN [ok |-> FALSE, data |-> <<>>, pos |-> pos]
    ELSE SideDataDecodeLoop(bytes, pos + 1, bytes[pos], <<>>)

\* Packet::encode_into: the header bytes
Packet_encode_into(p) ==
    <<p.stream>> \o LE8(p.packet_idx)
        \o LE8(as_micros(p.timestamp)) \o LE8(as_micros(p.duration))
        \o SideData_encode_into(p.side_data)
        \o <<DataTypeByte(p.data_type)>> \o LE8(p.data_len)

\* the byte count Packet::encode_into returns
Packet_total_bytes(p) == 8 * 3 + 1 + SideData_total_bytes(p.side_data) + 9

\* Packet::decode_from at cursor pos: [ok, packet, pos]
Packet_decode_from(bytes, pos) ==
    IF pos + 24 > Len(bytes) THEN [ok |-> FALSE, packet |-> <<>>, pos |-> pos]
    ELSE LET sd == SideData_decode_from(bytes, pos + 25) IN
         IF ~sd.ok \/ sd.pos + 8 > Len(bytes)
         THEN [ok |-> FALSE, packet |-> <<>>, pos |-> sd.pos]
         ELSE IF DataTypeFromByte(bytes[sd.pos]) = "Err"
         THEN [ok |-> FALSE, packet |-> <<>>, pos |-> sd.pos + 9]
         ELSE [ok |-> TRUE,
               packet |-> [stream |-> bytes[pos],
                           packet_idx |-> ReadLE8(bytes, pos + 1),
                           timestamp |-> from_micros(ReadLE8(bytes, pos + 9)),
                           duration |-> from_micros(ReadLE8(bytes, pos + 17)),
                           side_data |-> sd.data,
                           data_type |-> DataTypeFromByte(bytes[sd.pos]),
                           data_len |-> ReadLE8(bytes, sd.pos + 1)],
               pos |-> sd.pos + 9]

(***************************************************************************)
(* SpecPacket: one packet header encoded in front of a payload, then       *)
(* decoded.                                                                *)
(***************************************************************************)
Fill(n, b) == [i \in 1..n |-> b]

\* side-data values: empty, the method byte, a u64, and the two longest
\* values an ArrayVec<u8, 256> holds
SideValues ==
    {<<>>, <<2>>, LE8(20480), Fill(ValueCapacity - 1, 0), Fill(ValueCapacity, 0),
     Fill(ValueCapacity, 9)}

SideDatas ==
    UNION {[T -> SideValues] : T \in SUBSET {COMPRESSION_METHOD, DECOMPRESSED_LEN}}

Packets ==
    [stream : {0, 3},
     packet_idx : {1, 300},
     timestamp : {0, 1500, 33366000},
     duration : {41708000},
     side_data : SideDatas,
     data_type : PacketDataTypes,
     data_len : {3, 70000}]

\* the payload that follows the header
Payload == <<170, 187, 204>>

InitPacket ==
    /\ overflow_checks = FALSE
    /\ ReaderIdle
    /\ DeltaIdle
    /\ EncoderIdle
    /\ PlayerIdle
    /\ PipelineIdle
    /\ PaletteIdle
    /\ AnsiIdle
    /\ JoinIdle
    /\ ArgsIdle
    /\ pkt \in Packets
    /\ wire = <<>>
    /\ wire_len = 0
    /\ pkt_out = <<>>
    /\ wire_pos = 0
    /\ ppc = "start"

PacketEncodeStep ==
    /\ ppc = "start"
    /\ wire' = Packet_encode_into(pkt) \o Payload
    /\ wire_len' = Packet_total_bytes(pkt)
    /\ ppc' = "encoded"
    /\ UNCHANGED <<pkt, pkt_out, wire_pos, overflow_checks, readerVars, deltaVars,
                   encoderVars, playerVars, pipelineVars, paletteVars, ansiVars,
                   joinVars, argsVars>>

PacketDecodeStep ==
    /\ ppc = "encoded"
    /\ LET r == Packet_decode_from(wire, 1) IN
       /\ wire_pos' = r.pos - 1
       /\ IF r.ok THEN ppc' = "decoded" /\ pkt_out' = r.packet
          ELSE ppc' = "error" /\ UNCHANGED pkt_out
    /\ UNCHANGED <<pkt, wire, wire_len, overflow_checks, readerVars, deltaVars,
                   encoderVars, playerVars, pipelineVars, paletteVars, ansiVars,
                   joinVars, argsVars>>

NextPacket == PacketEncodeStep \/ PacketDecodeStep

SpecPacket == InitPacket /\ [][NextPacket]_vars

\* whole-microsecond timestamp and duration
WholeMicros(p) == p.timestamp % 1000 = 0 /\ p.duration % 1000 = 0

\* C6: for every well-formed Packet p, with any side-data map the type can
\* hold, decode_from applied to the bytes encode_into wrote yields a packet
\* equal to p and consumes exactly those bytes.
C6_PacketRoundTrip ==
    (ppc \in {"decoded", "error"} /\ WholeMicros(pkt)) =>
        /\ ppc = "decoded"
        /\ pkt_out = pkt
        /\ wire_pos = Len(wire) - Len(Payload)

\* the round trip for side-data values of at most 255 bytes
PacketRoundTripShortValues ==
    (/\ ppc \in {"decoded", "error"}
     /\ WholeMicros(pkt)
     /\ \A t \in DOMAIN pkt.side_data : Len(pkt.side_data[t]) < ValueCapacity) =>
        /\ ppc = "decoded"
        /\ pkt_out = pkt
        /\ wire_pos = Len(wire) - Len(Payload)
        /\ wire_pos = wire_len

(***************************************************************************)
(* The encoder: SeekTableEncoder and ANSIEncoder::process_packet.          *)
(* A Duration is held in nanoseconds.                                      *)
(***************************************************************************)
\* SeekTableEncoder::new: resolution, milliseconds
Resolution == 100

\* Duration::as_millis
as_millis(d) == d \div 1000000

\* u64 arithmetic that wraps
WrapU64(n) == n % Pow2(WordBits)

\* the condition of SeekTableEncoder::ingest: [panic, rec].  The u64
\* subtraction underflows when the packet is earlier than the last recorded
\* one: a panic with overflow checks, a wrapped difference without.
IngestDecision(timestamp, last, checks) ==
    IF as_millis(timestamp) = 0 THEN [panic |-> FALSE, rec |-> TRUE]
    ELSE IF as_millis(timestamp) < last /\ checks
         THEN [panic |-> TRUE, rec |-> FALSE]
         ELSE [panic |-> FALSE,
               rec |-> WrapU64(as_millis(timestamp) - last) >= Resolution]

\* SeekTableEncoder::ingest(packet, position): the entries afterwards
IngestEntries(es, timestamp, position, rec) ==
    IF rec THEN Append(es, SeekEntry(as_micros(timestamp), position)) ELSE es

\* ... and last_recorded afterwards
IngestLastRecorded(last, timestamp, rec) ==
    IF rec THEN as_millis(timestamp) ELSE last

\* metadata::CompressionMode as u8
CompressionModeByte(m) ==
    CASE m = "None" -> 0 [] m = "Zstd" -> 1 [] m = "Lz4" -> 2

\* the pipelines main() registers: the video stream (AnsiVideoEncoder, then
\* ZstdCompressor) and a subtitle stream (AnsiSubtitleEncoder, then
\* Lz4Compressor)
VideoStream == 0
SubtitleStream == 1
OtherStream == 2

PipelineDataType(stream) == IF stream = VideoStream THEN "Video" ELSE "Subtitle"

PipelineCompression(stream) == IF stream = VideoStream THEN "Zstd" ELSE "Lz4"

\* Pipeline::run on a fresh packet: the header after the FFToAnsi stage and
\* the compressor (raw_len bytes compressed to data_len bytes)
Pipeline_run(packet, raw_len, data_len) ==
    [packet EXCEPT
        !.data_type = PipelineDataType(packet.stream),
        !.data_len = data_len,
        !.side_data = (DECOMPRESSED_LEN :> LE8(raw_len))
                      @@ (COMPRESSION_METHOD :>
                            <<CompressionModeByte(PipelineCompression(packet.stream))>>)]

\* Packet::builder().timestamp(..).duration(..).stream(..).build()
Packet_builder(stream_idx, timestamp, duration) ==
    [stream |-> stream_idx % 256,
     packet_idx |-> 0,
     timestamp |-> timestamp,
     duration |-> duration,
     side_data |-> <<>>,
     data_type |-> "Invalid",
     data_len |-> 0]

\* the entry with or_insert(0): indices starting at 0
PacketIdxEntryFromZero(spi, stream) ==
    IF stream \in DOMAIN spi THEN spi[stream] ELSE 0

\* self.stream_packet_idx.entry(packet.stream).or_insert(1)
PacketIdxEntry(spi, stream) == IF stream \in DOMAIN spi THEN spi[stream] ELSE 1

\* every stream has a pipeline
self_encoders_any(stream) == TRUE

\* self.encoders.get_mut(&packet.stream) is Some
self_encoders_get(stream) == stream \in encoders

\* ANSIEncoder::process_packet(input); input.run_ok and input.write_ok say
\* whether the pipeline and the writes to `out` succeed
process_packet(input) ==
    LET built == Packet_builder(input.stream_idx, from_micros(input.pts),
                                from_micros(input.duration))
        run == Pipeline_run(built, input.raw_len, input.data_len)
        index == PacketIdxEntry(stream_packet_idx, built.stream)
        packet == [run EXCEPT !.packet_idx = index]
        d == IngestDecision(packet.timestamp, last_recorded, overflow_checks)
    IN
    IF ~self_encoders_get(built.stream)
    THEN UNCHANGED <<stream_packet_idx, bytes_written, last_recorded, entries,
                     out, epc, ingest_log>>
    ELSE IF ~input.run_ok
    THEN /\ epc' = "failed"
         /\ UNCHANGED <<stream_packet_idx, bytes_written, last_recorded, entries,
                        out, ingest_log>>
    ELSE /\ stream_packet_idx' = (built.stream :> index + 1) @@ stream_packet_idx
         /\ IF d.panic
            THEN /\ epc' = "panicked"
                 /\ UNCHANGED <<bytes_written, last_recorded, entries, out, ingest_log>>
            ELSE /\ entries' = IngestEntries(entries, packet.timestamp,
                                             bytes_written, d.rec)
                 /\ last_recorded' = IngestLastRecorded(last_recorded,
                                                        packet.timestamp, d.rec)
                 /\ ingest_log' = Append(ingest_log,
                                         [timestamp |-> packet.timestamp,
                                          last |-> last_recorded,
                                          rec |-> d.rec])
                 /\ IF input.write_ok
                    THEN /\ out' = Append(out, [header |-> packet,
                                                position |-> bytes_written,
                                                payload_len |-> input.data_len])
                         /\ bytes_written' = bytes_written
                                + Packet_total_bytes(packet) + input.data_len
                         /\ epc' = epc
                    ELSE /\ epc' = "failed"
                         /\ UNCHANGED <<out, bytes_written>>

(***************************************************************************)
(* SpecEncoder: the receiver thread of main() feeding process_packet with  *)
(* the packets of the frame source, until the source ends or a call fails. *)
(***************************************************************************)
\* presentation timestamps of the source, microseconds
PtsInputs == {0, 500, 50000, 100000, 150000, 250000}

SourceStreams == {VideoStream, SubtitleStream, OtherStream}

SrcLast(stream) == IF stream \in DOMAIN src_last THEN src_last[stream] ELSE -1

\* the inputs the source may deliver next: within a stream the timestamps
\* increase, the streams are interleaved in any order
Inputs ==
    {i \in [stream_idx : SourceStreams, pts : PtsInputs, duration : {40000},
            raw_len : {9}, data_len : {0, 5},
            run_ok : BOOLEAN, write_ok : BOOLEAN] :
        i.pts > SrcLast(i.stream_idx)}

InitEncoder ==
    /\ overflow_checks \in BOOLEAN
    /\ ReaderIdle
    /\ DeltaIdle
    /\ PacketIdle
    /\ PlayerIdle
    /\ encoders = {VideoStream, SubtitleStream}
    /\ stream_packet_idx = <<>>
    /\ bytes_written = 0
    /\ last_recorded = 0
    /\ entries = <<>>
    /\ out = <<>>
    /\ epc = "running"
    /\ src_last = <<>>
    /\ fed = 0
    /\ ingest_log = <<>>

ProcessPacket ==
    /\ epc = "running"
    /\ fed < MaxPackets
    /\ \E input \in Inputs :
        /\ process_packet(input)
        /\ src_last' = (input.stream_idx :> input.pts) @@ src_last
    /\ fed' = fed + 1
    /\ UNCHANGED <<encoders, overflow_checks, readerVars, deltaVars, packetVars,
                   playerVars>>

NextEncoder == ProcessPacket

SpecEncoder == InitEncoder /\ [][NextEncoder]_vars

\* the packet_idx values written for stream s, in write order
RECURSIVE IdxOfStream(_, _)
IdxOfStream(w, s) ==
    IF w = <<>> THEN <<>>
    ELSE (IF Head(w).header.stream = s THEN <<Head(w).header.packet_idx>> ELSE <<>>)
         \o IdxOfStream(Tail(w), s)

\* C7: after any sequence of process_packet calls, the packets written for
\* each stream carry packet_idx 1, 2, 3, ... in write order, however the
\* packets of other streams are interleaved.
C7_PacketIdxPerStream ==
    \A s \in SourceStreams :
        LET idx == IdxOfStream(out, s) IN
        \A k \in 1..Len(idx) : idx[k] = k

\* two packets of the video stream written around one of the subtitle stream
C7_Witness ==
    \E i, j, k \in 1..Len(out) :
        /\ i < j /\ j < k
        /\ out[i].header.stream = VideoStream
        /\ out[j].header.stream = SubtitleStream
        /\ out[k].header.stream = VideoStream
        /\ out[k].header.packet_idx = 2

\* C8: after any sequence of ingested packets (every call having returned
\* Ok) the entry list is strictly increasing in ts and strictly increasing
\* in location, and the first entry has ts >= 0.
C8_EntriesStrictlyIncreasing ==
    epc = "running" =>
        /\ \A i \in 1..(Len(entries) - 1) :
            /\ entries[i].ts < entries[i + 1].ts
            /\ entries[i].location < entries[i + 1].location
        /\ Len(entries) > 0 => entries[1].ts >= 0

\* the locations alone are strictly increasing
EntriesLocationIncreasing ==
    \A i \in 1..(Len(entries) - 1) : entries[i].location < entries[i + 1].location

\* C9: the first packet ingested is recorded whatever its timestamp, and a
\* later packet is recorded exactly when its presentation time is at least
\* `resolution` ms after the last recorded packet's (every call having
\* returned Ok).
C9_SamplingRule ==
    epc = "running" =>
        \A k \in 1..Len(ingest_log) :
            ingest_log[k].rec =
                (\/ k = 1
                 \/ as_millis(ingest_log[k].timestamp) - ingest_log[k].last
                        >= Resolution)

\* what ingest does do: a packet is recorded exactly when its millisecond
\* timestamp is 0, or is at least `resolution` above last_recorded, or (in a
\* build without overflow checks) is below last_recorded
IngestRuleOfTheCode ==
    \A k \in 1..Len(ingest_log) :
        LET ms == as_millis(ingest_log[k].timestamp) IN
        ingest_log[k].rec =
            (\/ ms = 0
             \/ ms - ingest_log[k].last >= Resolution
             \/ ms < ingest_log[k].last)

(***************************************************************************)
(* The player: PlayerControl (driven by main), the decoder thread and the  *)
(* render thread.                                                          *)
(***************************************************************************)
\* Packet::default(): what a channel slot holds before its first use
DefaultHeader ==
    [stream |-> 0, packet_idx |-> 0, data_type |-> "Invalid",
     timestamp |-> 0, duration |-> 0]

\* a packet header as the encoder writes it; times in ms
Header(stream, idx, type, ts, dur) ==
    [stream |-> stream, packet_idx |-> idx, data_type |-> type,
     timestamp |-> ts * 1000000, duration |-> dur * 1000000]

\* the container file played: a subtitle shown from 50 ms to 100 ms, one
\* shown from 102 ms to 107 ms, and video frames at 0, 40, 102, 140 and 180 ms
File ==
    << Header(SubtitleStream, 1, "Subtitle", 50, 50),
       Header(VideoStream, 1, "Video", 0, 40),
       Header(VideoStream, 2, "Video", 40, 40),
       Header(VideoStream, 3, "Video", 102, 38),
       Header(SubtitleStream, 2, "Subtitle", 102, 5),
       Header(VideoStream, 4, "Video", 140, 40),
       Header(VideoStream, 5, "Video", 180, 40) >>

\* bytes a packet (header and data) takes in the file
PacketBytes == 64

\* bytes before the first packet
FileStartOfPackets == 57

\* the seek table the encoder left in the file: SeekTableEncoder::ingest
\* over the packets in file order, each at the byte offset it was written at
RECURSIVE FileSeekTable(_, _, _)
FileSeekTable(n, es, last) ==
    IF n > Len(File) THEN es
    ELSE LET ts == File[n].timestamp
             d  == IngestDecision(ts, last, FALSE)
         IN  FileSeekTable(n + 1,
                           IngestEntries(es, ts, (n - 1) * PacketBytes, d.rec),
                           IngestLastRecorded(last, ts, d.rec))

\* the index in File of the packet at stream position pos; 0 at end of file
PacketAt(pos) ==
    LET off == pos - start_of_packets IN
    IF off >= 0 /\ off % PacketBytes = 0 /\ off \div PacketBytes < Len(File)
    THEN off \div PacketBytes + 1
    ELSE 0

\* Instant::now() when PlayerControl::new runs, ns
StartInstant == 1000000000

\* the slots the channel has handed out and not taken back: queued ones,
\* the SendRef of the decoder thread, the RecvRef of the render thread
SlotsInUse ==
    Len(queue)
    + (IF reader_thread \in {"read", "store"} THEN 1 ELSE 0)
    + (IF render_thread \in {"video_time", "current_time", "sleep"} THEN 1 ELSE 0)

\* main has not panicked: a panic of the main thread ends the process
Running == control # "panicked"

readerStatic == <<seektable, start_of_packets, seek_time, seek_ret, spc>>

otherVars == <<overflow_checks, deltaVars, packetVars, encoderVars>>

controlVars == <<control, old_state, seek_arg, ops, seek_entry_status, seeks>>

renderVars == <<render_thread, slot, subs, output, sub_log>>

\* ---- decoder thread -----------------------------------------------------
\* packet_tx.send_ref(): waits for a free slot; the slot comes with the
\* header it was last sent with (the recycler clears only the data)
SendRef ==
    /\ Running
    /\ reader_thread = "send_ref"
    /\ SlotsInUse < QueueCap
    /\ reader_thread' = "read"
    /\ send_slot' = Head(ring)
    /\ UNCHANGED <<play_status, current_time, video_time, subtitle_index,
                   reader_lock, time_locks, queue, ring, closed, reader_pos,
                   readerStatic, otherVars, controlVars, renderVars,
                   clockRest, pause_time, wait_start>>

\* input_handle.lock(); read_packet_data_into(&mut slot.data); drop(lock)
ReadPacket ==
    /\ Running
    /\ reader_thread = "read"
    /\ reader_lock = "none"
    /\ PacketAt(reader_pos) # 0
    /\ send_slot' = File[PacketAt(reader_pos)]
    /\ reader_pos' = reader_pos + PacketBytes
    /\ reader_thread' = "store"
    /\ UNCHANGED <<play_status, current_time, video_time, subtitle_index,
                   reader_lock, time_locks, queue, ring, closed,
                   readerStatic, otherVars, controlVars, renderVars,
                   clockRest, pause_time, wait_start>>

\* slot.header = packet.unwrap(), then the SendRef drops: the slot is sent
StoreHeader ==
    /\ Running
    /\ reader_thread = "store"
    /\ queue' = Append(queue, [header |-> send_slot, data |-> "read"])
    /\ ring' = Append(Tail(ring), send_slot)
    /\ reader_thread' = "send_ref"
    /\ UNCHANGED <<play_status, current_time, video_time, subtitle_index,
                   reader_lock, time_locks, closed, send_slot, reader_pos,
                   readerStatic, otherVars, controlVars, renderVars,
                   clockRest, pause_time, wait_start>>

\* read_packet_data_into returns Err at end of file: packet.unwrap() panics.
\* Unwinding drops the SendRef, which sends the slot as it is (the header it
\* was last sent with, no data), and then packet_tx, which closes the channel.
ReadPacketEof ==
    /\ Running
    /\ reader_thread = "read"
    /\ reader_lock = "none"
    /\ PacketAt(reader_pos) = 0
    /\ queue' = Append(queue, [header |-> send_slot, data |-> "empty"])
    /\ ring' = Append(Tail(ring), send_slot)
    /\ closed' = TRUE
    /\ reader_thread' = "panicked"
    /\ UNCHANGED <<play_status, current_time, video_time, subtitle_index,
                   reader_lock, time_locks, send_slot, reader_pos,
                   readerStatic, otherVars, controlVars, renderVars,
                   clockRest, pause_time, wait_start>>

\* ---- render thread ------------------------------------------------------
NoPacket == [header |-> DefaultHeader, data |-> "none"]

NoFrame == [header |-> DefaultHeader, line |-> 0, claimed_origin |-> 0]

\* Duration::from_millis(3), ns
LineSlack == 3000000

\* line = start + slot.header.timestamp - Duration::from_millis(3)
Line(start, timestamp) == start + timestamp - LineSlack

\* subs.retain(|s| (start + s.ends_at) >= line)
Retain(sbs, start, line) ==
    SelectSeq(sbs, LAMBDA s : start + s.ends_at >= line)

\* the loop over subs skipped what starts after the frame's own timestamp
OverlayIgnoringDuration(sbs, header, index) ==
    SelectSeq(sbs, LAMBDA s : ~(\/ s.starts_at > header.timestamp
                                \/ s.stream # index))

\* the subtitles the loop over subs does not skip
Overlay(sbs, header, index) ==
    SelectSeq(sbs, LAMBDA s : ~(\/ s.starts_at > header.timestamp + header.duration
                                \/ s.stream # index))

\* the Subtitle pushed for a Subtitle packet; n numbers the pushes
SubtitleOf(header, n) ==
    [stream |-> header.stream, starts_at |-> header.timestamp,
     ends_at |-> header.timestamp + header.duration, n |-> n]

\* in sub_log: the subtitle was not taken by the drain of a seek
NoSeek == 0 - 1

\* SubRectVec::decode_from(..).unwrap() panics on a slot without data; seek
\* is what sub_log notes for the push
TakeSubtitle(p, next, seek) ==
    IF p.data = "empty"
    THEN /\ render_thread' = "panicked"
         /\ UNCHANGED <<subs, sub_log>>
    ELSE /\ render_thread' = next
         /\ subs' = Append(subs, SubtitleOf(p.header, Len(sub_log) + 1))
         /\ sub_log' = Append(sub_log,
                [sub |-> SubtitleOf(p.header, Len(sub_log) + 1),
                 drained_for |-> seek])

\* the render thread waits only for a seek to end
render_waits_for_seek(v) == v = "DiscardDone"

\* cvar.wait_while(&mut playing, |v| *v == Paused || *v == DiscardDone)
render_waits(v) == v \in {"Paused", "DiscardDone"}

\* the top of 'play: wait while Paused or DiscardDone, then read cur_state,
\* which the position of the thread holds from here on
WaitStatus ==
    /\ Running
    /\ render_thread = "wait"
    /\ ~render_waits(play_status)
    /\ render_thread' = IF play_status = "DiscardRequest" THEN "drain" ELSE "recv"
    /\ UNCHANGED <<play_status, current_time, video_time, subtitle_index,
                   reader_lock, time_locks, queue, ring, closed, reader_thread,
                   send_slot, slot, subs, output, sub_log, reader_pos,
                   readerStatic, otherVars, controlVars, clockRest,
                   pause_time, wait_start>>

\* while let Ok(slot) = receiver.try_recv_ref(): one packet; seek is what
\* sub_log notes for a subtitle
DrainTake(seek) ==
    /\ Running
    /\ render_thread = "drain"
    /\ queue # <<>>
    /\ LET p == Head(queue) IN
       /\ queue' = Tail(queue)
       /\ IF p.header.data_type = "Subtitle"
          THEN TakeSubtitle(p, "drain", seek)
          ELSE UNCHANGED <<render_thread, subs, sub_log>>
    /\ UNCHANGED <<play_status, current_time, video_time, subtitle_index,
                   reader_lock, time_locks, ring, closed, reader_thread,
                   send_slot, slot, output, reader_pos,
                   readerStatic, otherVars, controlVars, clockRest,
                   pause_time, wait_start>>

DrainPacket == DrainTake(NoSeek)

\* try_recv_ref() returns Err: no sent slot is queued
DrainEnd ==
    /\ Running
    /\ render_thread = "drain"
    /\ queue = <<>>
    /\ render_thread' = "discard_done"
    /\ UNCHANGED <<play_status, current_time, video_time, subtitle_index,
                   reader_lock, time_locks, queue, ring, closed, reader_thread,
                   send_slot, slot, subs, output,
                   sub_log, reader_pos, readerStatic, otherVars, controlVars, clockRest,
                   pause_time, wait_start>>

\* *lock.lock() = DiscardDone; notify_all(); continue 'play
SetDiscardDone ==
    /\ Running
    /\ render_thread = "discard_done"
    /\ play_status' = "DiscardDone"
    /\ render_thread' = "wait"
    /\ UNCHANGED <<current_time, video_time, subtitle_index,
                   reader_lock, time_locks, queue, ring, closed, reader_thread,
                   send_slot, slot, subs, output,
                   sub_log, reader_pos, readerStatic, otherVars, controlVars, clockRest,
                   pause_time, wait_start>>

\* receiver.recv_ref() returns a slot; a Subtitle is pushed to subs
RecvPacket ==
    /\ Running
    /\ render_thread = "recv"
    /\ queue # <<>>
    /\ LET p == Head(queue) IN
       /\ queue' = Tail(queue)
       /\ IF p.header.data_type = "Subtitle"
          THEN TakeSubtitle(p, "wait", NoSeek) /\ UNCHANGED slot
          ELSE /\ slot' = p
               /\ render_thread' = "video_time"
               /\ UNCHANGED <<subs, sub_log>>
    /\ UNCHANGED <<play_status, current_time, video_time, subtitle_index,
                   reader_lock, time_locks, ring, closed, reader_thread,
                   send_slot, output, reader_pos,
                   readerStatic, otherVars, controlVars, clockRest,
                   pause_time, wait_start>>

\* receiver.recv_ref() returns None: the channel is closed and empty
RecvClosed ==
    /\ Running
    /\ render_thread = "recv"
    /\ queue = <<>>
    /\ closed
    /\ render_thread' = "exit"
    /\ UNCHANGED <<play_status, current_time, video_time, subtitle_index,
                   reader_lock, time_locks, queue, ring, closed, reader_thread,
                   send_slot, slot, subs, output,
                   sub_log, reader_pos, readerStatic, otherVars, controlVars, clockRest,
                   pause_time, wait_start>>

\* *state.video_time.lock() = slot.header.timestamp
SetVideoTime ==
    /\ Running
    /\ render_thread = "video_time"
    /\ "video_time" \notin time_locks
    /\ video_time' = slot.header.timestamp
    /\ render_thread' = "current_time"
    /\ UNCHANGED <<play_status, current_time, subtitle_index,
                   reader_lock, time_locks, queue, ring, closed, reader_thread,
                   send_slot, slot, subs, output,
                   sub_log, reader_pos, readerStatic, otherVars, controlVars, clockRest,
                   pause_time, wait_start>>

\* start = *state.current_time.lock(); the frame is put together in slices
\* (subs.retain, then the subtitles not skipped); sleeper.sleep_until(line);
\* output.write_all_vectored(&mut slices); flush; the RecvRef drops
WriteFrame ==
    /\ Running
    /\ render_thread = "current_time"
    /\ "current_time" \notin time_locks
    /\ LET start == current_time
           line  == Line(start, slot.header.timestamp)
           kept  == Retain(subs, start, line)
       IN  /\ subs' = kept
           /\ output' = Append(output,
                  [header |-> slot.header, data |-> slot.data,
                   overlay |-> Overlay(kept, slot.header, subtitle_index),
                   pushed |-> Len(sub_log)])
    /\ slot' = NoPacket
    /\ render_thread' = "wait"
    /\ UNCHANGED <<play_status, current_time, video_time, subtitle_index,
                   reader_lock, time_locks, queue, ring, closed, reader_thread,
                   send_slot, sub_log, reader_pos, readerStatic,
                   otherVars, controlVars, clockRest,
                   pause_time, wait_start>>

\* ---- control thread (main) ----------------------------------------------
\* the step of the 'a' and 'd' keys (the code's is 5 s), ns
KeySeekStep == 50000000

\* the time a click on the progress bar asks for, ns
ClickTimes == {60000000}

\* no time has passed
ElapsedNone(since) == 0

\* Instant::elapsed
Elapsed(since) == now - since

\* seek() wrote Playing whatever the status was before
RestoredStatusPlaying(old) == "Playing"

\* the status seek() writes last
RestoredStatus(old) == old

\* PlayerControl::resume
resume ==
    /\ control \in {"start", "idle"}
    /\ control = "idle" => ops < MaxOps
    /\ play_status \notin {"DiscardRequest", "DiscardDone"}
    /\ current_time' = current_time + Elapsed(pause_time)
    /\ play_status' = "Playing"
    /\ control' = "idle"
    /\ ops' = IF control = "idle" THEN ops + 1 ELSE ops
    /\ UNCHANGED <<video_time, subtitle_index, reader_lock, time_locks, queue,
                   ring, closed, reader_thread, send_slot, old_state, seek_arg,
                   seek_entry_status, seeks, reader_pos, readerStatic,
                   otherVars, renderVars, now, frame, pause_time, wait_start>>

\* main: the 'r' key
Resume ==
    resume /\ UNCHANGED <<paused_at, origin_at_pause, claimed_origin, pause_mark>>

\* pause() left pause_time as it was
PauseTimeKept(status, old, t) == old

\* pause_time after pause(): if status == Paused { return }; pause_time =
\* Some(Instant::now())
PauseTime(status, old, t) == IF status = "Paused" THEN old ELSE t

\* PlayerControl::pause
pause ==
    /\ control = "idle"
    /\ ops < MaxOps
    /\ play_status \in {"Paused", "Playing"}
    /\ pause_time' = PauseTime(play_status, pause_time, now)
    /\ play_status' = "Paused"
    /\ ops' = ops + 1
    /\ UNCHANGED <<current_time, video_time, subtitle_index, reader_lock,
                   time_locks, queue, ring, closed, reader_thread, send_slot,
                   control, old_state, seek_arg, seek_entry_status, seeks,
                   reader_pos, readerStatic, otherVars, renderVars, now, frame,
                   wait_start>>

\* main: the 'p' key
Pause ==
    pause /\ UNCHANGED <<paused_at, origin_at_pause, claimed_origin, pause_mark>>

\* main: the 'q' key: panic!("bye!")
Quit ==
    /\ control = "idle"
    /\ ops < MaxOps
    /\ control' = "panicked"
    /\ ops' = ops + 1
    /\ UNCHANGED <<play_status, current_time, video_time, subtitle_index,
                   reader_lock, time_locks, queue, ring, closed, reader_thread,
                   send_slot, old_state, seek_arg, seek_entry_status, seeks,
                   reader_pos, readerStatic, otherVars, renderVars, clockRest,
                   pause_time, wait_start>>

\* PlayerControl::seek(time) is called: wait_start = Instant::now();
\* reader_handle.lock() (the decoder
\* thread holds that lock only within ReadPacket); old_state = status;
\* status = DiscardRequest; notify_all()
Seek(time) ==
    /\ control = "idle"
    /\ ops < MaxOps
    /\ ops' = ops + 1
    /\ seek_arg' = time
    /\ seek_entry_status' = play_status
    /\ seeks' = seeks + 1
    /\ reader_lock = "none"
    /\ reader_lock' = "control"
    /\ old_state' = play_status
    /\ play_status' = "DiscardRequest"
    /\ control' = "seek_reader"
    /\ wait_start' = now
    /\ UNCHANGED <<current_time, video_time, subtitle_index, time_locks, queue,
                   ring, closed, reader_thread, send_slot, reader_pos,
                   readerStatic, otherVars, renderVars, clockRest, pause_time>>

\* main: a left click on the progress bar
ClickSeek == \E time \in ClickTimes : Seek(time)

\* PlayerControl::seek_forward
SeekForward == Seek(video_time + KeySeekStep)

\* PlayerControl::seek_backwards: checked_sub(time).unwrap_or_default()
SeekBackwards ==
    Seek(IF video_time >= KeySeekStep THEN video_time - KeySeekStep ELSE 0)

\* seek: current_time.lock(); video_time.lock(); actual_time =
\* reader.seek(time.as_micros() as i64)?; current_time is moved by
\* delta = video_time.as_micros() - actual_time
SeekReader ==
    /\ control = "seek_reader"
    /\ Reader_seek(as_micros(seek_arg))
    /\ IF spc' = "panicked"
       THEN /\ control' = "panicked"
            /\ UNCHANGED <<current_time, time_locks>>
       ELSE LET delta == as_micros(video_time) - seek_ret' IN
            /\ current_time' = IF delta >= 0
                               THEN current_time + from_micros(delta)
                               ELSE current_time - from_micros(-delta)
            /\ time_locks' = {"current_time", "video_time"}
            /\ control' = "seek_wait"
    /\ UNCHANGED <<play_status, video_time, subtitle_index, reader_lock,
                   queue, ring, closed, reader_thread, send_slot,
                   old_state, seek_arg, ops, seek_entry_status, seeks,
                   seektable, start_of_packets, otherVars, renderVars, clockRest,
                   pause_time, wait_start>>

\* seek: wait_for_state(|v| *v != DiscardDone); drop(reader); current_time
\* += wait_start.elapsed(); drop(current_time); drop(video_time); status =
\* old_state; notify_all(); Ok(()). The locals of seek and of Reader::seek
\* are gone.
SeekRestore ==
    /\ control = "seek_wait"
    /\ play_status = "DiscardDone"
    /\ reader_lock' = "none"
    /\ current_time' = current_time + Elapsed(wait_start)
    /\ time_locks' = {}
    /\ play_status' = RestoredStatus(old_state)
    /\ control' = "idle"
    /\ old_state' = "Paused"
    /\ seek_entry_status' = "Paused"
    /\ seek_arg' = 0
    /\ seek_time' = 0
    /\ seek_ret' = 0
    /\ spc' = "idle"
    /\ wait_start' = StartInstant
    /\ UNCHANGED <<video_time, subtitle_index, queue, ring, closed,
                   reader_thread, send_slot, ops, seeks,
                   reader_pos, seektable, start_of_packets, otherVars,
                   renderVars, clockRest, pause_time>>

\* ---- the player ---------------------------------------------------------
\* PlayerControl::auto_select_subtitles: the first subtitle stream, if any
auto_select_subtitles(index) ==
    LET S == {File[i].stream : i \in {j \in 1..Len(File) :
                                        File[j].data_type = "Subtitle"}}
    IN  IF S = {} THEN index
        ELSE CHOOSE st \in S : \A other \in S : st <= other

\* PlayerControl::new has run and main has called auto_select_subtitles
Init ==
    /\ overflow_checks = FALSE
    /\ DeltaIdle
    /\ PacketIdle
    /\ EncoderIdle
    /\ seektable = FileSeekTable(1, <<>>, 0)
    /\ start_of_packets = FileStartOfPackets
    /\ reader_pos = FileStartOfPackets
    /\ seek_time = 0
    /\ seek_ret = 0
    /\ spc = "idle"
    /\ play_status = "Paused"
    /\ current_time = StartInstant
    /\ video_time = 0
    /\ subtitle_index = auto_select_subtitles(255)
    /\ reader_lock = "none"
    /\ time_locks = {}
    /\ queue = <<>>
    /\ ring = [i \in 1..QueueCap |-> DefaultHeader]
    /\ closed = FALSE
    /\ reader_thread = "send_ref"
    /\ send_slot = DefaultHeader
    /\ render_thread = "wait"
    /\ slot = NoPacket
    /\ subs = <<>>
    /\ output = <<>>
    /\ control = "start"
    /\ old_state = "Paused"
    /\ seek_arg = 0
    /\ ops = 0
    /\ seek_entry_status = "Paused"
    /\ seeks = 0
    /\ sub_log = <<>>
    /\ now = StartInstant
    /\ pause_time = StartInstant
    /\ wait_start = StartInstant
    /\ frame = NoFrame
    /\ paused_at = StartInstant
    /\ origin_at_pause = StartInstant
    /\ claimed_origin = 0
    /\ pause_mark = [frames |-> 0, render |-> "wait"]

Next ==
    \/ SendRef \/ ReadPacket \/ StoreHeader \/ ReadPacketEof
    \/ WaitStatus \/ DrainPacket \/ DrainEnd \/ SetDiscardDone
    \/ RecvPacket \/ RecvClosed \/ SetVideoTime \/ WriteFrame
    \/ Resume \/ Pause \/ Quit \/ ClickSeek \/ SeekForward \/ SeekBackwards
    \/ SeekReader \/ SeekRestore

Spec == Init /\ [][Next]_vars

(***************************************************************************)
(* Properties of the player.                                               *)
(***************************************************************************)
\* seek() has written DiscardRequest and not yet restored the status
SeekOpen == control \in {"seek_reader", "seek_wait"}

C3_NoFrameWhileSeekOpen ==
    [][/\ SeekOpen => output' = output
       /\ (play_status # "DiscardDone" /\ play_status' = "DiscardDone")
            => queue = <<>>]_vars

\* the two halves of it
NoFrameWhileSeekOpen == [][SeekOpen => output' = output]_vars

QueueEmptyAtDiscardDone ==
    [][(play_status # "DiscardDone" /\ play_status' = "DiscardDone")
            => queue = <<>>]_vars

\* what the drain does keep: from the render thread reading DiscardRequest
\* at the top of its loop until seek() restores the status, no frame is
\* written and no packet taken from the queue is kept for rendering
NoFrameWhileDraining ==
    [][(render_thread \in {"drain", "discard_done"} \/ play_status = "DiscardDone")
            => /\ output' = output
               /\ slot' = slot]_vars

\* the packets the decoder thread has read from the file (no seek yet)
PacketsRead == SubSeq(File, 1, (reader_pos - start_of_packets) \div PacketBytes)

IsPrefix(a, b) == Len(a) <= Len(b) /\ \A i \in 1..Len(a) : a[i] = b[i]

FramesWritten == [i \in 1..Len(output) |-> output[i].header]

\* C4: while no seek has been made, the frames written are the video packets
\* read from the file, in order, each once; when the render thread has
\* exited none is missing.
C4_FramesAreTheVideoPacketsRead ==
    seeks = 0 =>
        LET video == SelectSeq(PacketsRead, LAMBDA h : h.data_type = "Video") IN
        /\ IsPrefix(FramesWritten, video)
        /\ render_thread = "exit" => FramesWritten = video

\* frame i of the output has subtitle push n among its overlays
Shown(i, n) == \E k \in 1..Len(output[i].overlay) : output[i].overlay[k].n = n

\* C10 as stated: a subtitle (s, e) of the active stream, pushed before a
\* frame was put together, is on that frame exactly when s <= pkt.ts <= e.
C10_SubtitleShownInsideInterval ==
    \A i \in 1..Len(output) : \A n \in 1..output[i].pushed :
        LET ts == output[i].header.timestamp
            s  == sub_log[n].sub
        IN  s.stream = subtitle_index =>
                (Shown(i, n) <=> (s.starts_at <= ts /\ ts <= s.ends_at))

\* C10, amended: such a subtitle is on the frame exactly when
\* pkt.ts + pkt.dur >= s and pkt.ts <= e + 3 ms and no frame with
\* pkt.ts > e + 3 ms was put together since the subtitle was pushed.
C10_SubtitleShownWhileKept ==
    \A i \in 1..Len(output) : \A n \in 1..output[i].pushed :
        LET h == output[i].header
            s == sub_log[n].sub
        IN  s.stream = subtitle_index =>
                (Shown(i, n) <=>
                    /\ s.starts_at <= h.timestamp + h.duration
                    /\ h.timestamp <= s.ends_at + LineSlack
                    /\ ~ \E j \in 1..(i - 1) :
                            /\ output[j].pushed >= n
                            /\ output[j].header.timestamp > s.ends_at + LineSlack)

\* a frame inside the interval carries the subtitle, a later one does not
C10_Witness ==
    \E i, j \in 1..Len(output) :
        /\ i < j
        /\ output[i].pushed >= 1
        /\ Shown(i, 1)
        /\ sub_log[1].sub.starts_at <= output[i].header.timestamp
        /\ output[i].header.timestamp <= sub_log[1].sub.ends_at
        /\ ~ Shown(j, 1)

(***************************************************************************)
(* SpecClock: the player with the wall clock running. The render thread    *)
(* sleeps until a frame is due, main pauses and resumes; no seek is made.  *)
(***************************************************************************)
\* the wall clock advances in steps of 40 ms
TickStep == 40 * 1000000

Tick ==
    /\ Running
    /\ now < StartInstant + MaxTicks * TickStep
    /\ now' = now + TickStep
    /\ UNCHANGED <<play_status, current_time, video_time, subtitle_index,
                   reader_lock, time_locks, queue, ring, closed, reader_thread,
                   send_slot, reader_pos, readerStatic, otherVars, controlVars,
                   renderVars, pause_time, wait_start, frame, paused_at,
                   origin_at_pause, claimed_origin, pause_mark>>

\* start = *state.current_time.lock(); line; the frame is put together in
\* slices (subs.retain, then the subtitles not skipped)
ComposeFrame ==
    /\ Running
    /\ render_thread = "current_time"
    /\ "current_time" \notin time_locks
    /\ LET start == current_time
           line  == Line(start, slot.header.timestamp)
           kept  == Retain(subs, start, line)
       IN  /\ subs' = kept
           /\ frame' = [header |-> slot.header, line |-> line,
                        claimed_origin |-> claimed_origin]
    /\ render_thread' = "sleep"
    /\ UNCHANGED <<play_status, current_time, video_time, subtitle_index,
                   reader_lock, time_locks, queue, ring, closed, reader_thread,
                   send_slot, slot, output, sub_log, reader_pos, readerStatic,
                   otherVars, controlVars, now, pause_time, wait_start,
                   paused_at, origin_at_pause, claimed_origin, pause_mark>>

\* sleeper.sleep_until(line) returns; output.write_all_vectored(&mut slices);
\* flush; the RecvRef drops
EmitFrame ==
    /\ Running
    /\ render_thread = "sleep"
    /\ now >= frame.line
    /\ output' = Append(output,
           [header |-> frame.header, line |-> frame.line,
            claimed_origin |-> frame.claimed_origin,
            claimed_at_write |-> claimed_origin])
    /\ slot' = NoPacket
    /\ frame' = NoFrame
    /\ render_thread' = "wait"
    /\ UNCHANGED <<play_status, current_time, video_time, subtitle_index,
                   reader_lock, time_locks, queue, ring, closed, reader_thread,
                   send_slot, subs, sub_log, reader_pos, readerStatic,
                   otherVars, controlVars, now, pause_time, wait_start,
                   paused_at, origin_at_pause, claimed_origin, pause_mark>>

\* main: the 'p' key; a pause() that pauses is recorded
PauseClock ==
    /\ pause
    /\ IF play_status = "Playing"
       THEN /\ paused_at' = now
            /\ origin_at_pause' = current_time
            /\ claimed_origin' = 0
       ELSE UNCHANGED <<paused_at, origin_at_pause, claimed_origin>>
    /\ UNCHANGED pause_mark

\* main: the 'r' key; a resume() that ends a pause of D at origin o claims
\* the origin o + D, any other resume() ends the claim
ResumeClock ==
    /\ resume
    /\ claimed_origin' = IF play_status = "Paused"
                         THEN origin_at_pause + (now - paused_at)
                         ELSE 0
    /\ UNCHANGED <<paused_at, origin_at_pause, pause_mark>>

NextClock ==
    \/ SendRef \/ ReadPacket \/ StoreHeader \/ ReadPacketEof
    \/ WaitStatus \/ RecvPacket \/ RecvClosed \/ SetVideoTime
    \/ ComposeFrame \/ EmitFrame
    \/ ResumeClock \/ PauseClock \/ Quit \/ Tick

SpecClock == Init /\ [][NextClock]_vars

\* C11 as stated: after pause() at t0 and resume() at t0 + D the origin is the
\* origin at the pause plus D, and the next frame written has
\* line = that origin + pkt.ts - 3 ms.
C11_ResumeShiftsOriginByPause ==
    /\ claimed_origin # 0 => current_time = claimed_origin
    /\ \A i \in 1..Len(output) :
        LET f == output[i] IN
        (/\ f.claimed_at_write # 0
         /\ i > 1 => output[i - 1].claimed_at_write # f.claimed_at_write)
            => f.line = f.claimed_at_write + f.header.timestamp - LineSlack

\* C11, amended: the origin is the origin at the pause plus D, and every frame
\* the render thread puts together after the resume (and before another
\* pause() or resume()) has line = that origin + pkt.ts - 3 ms.
C11_ResumeShiftsOriginOfFramesRead ==
    /\ claimed_origin # 0 => current_time = claimed_origin
    /\ \A i \in 1..Len(output) :
        LET f == output[i] IN
        f.claimed_origin # 0
            => f.line = f.claimed_origin + f.header.timestamp - LineSlack

\* a frame put together and written after a pause of 40 ms or more that
\* began after the clock had advanced
C11_Witness ==
    \E i \in 1..Len(output) :
        /\ output[i].claimed_origin # 0
        /\ paused_at > StartInstant
        /\ output[i].claimed_origin >= origin_at_pause + TickStep
        /\ output[i].claimed_origin = claimed_origin


(***************************************************************************)
(* End of file.                                                            *)
(***************************************************************************)
\* the steps of the decoder thread
ReaderSteps == SendRef \/ ReadPacket \/ StoreHeader \/ ReadPacketEof

\* the steps of the render thread
RenderSteps ==
    \/ WaitStatus \/ DrainPacket \/ DrainEnd \/ SetDiscardDone
    \/ RecvPacket \/ RecvClosed \/ SetVideoTime \/ WriteFrame

\* the steps seek() takes by itself once it was called
SeekSteps == SeekReader \/ SeekRestore

\* every thread that can run does run in the end
FairSpec ==
    Spec /\ WF_vars(ReaderSteps) /\ WF_vars(RenderSteps) /\ WF_vars(SeekSteps)

\* a thread has ended, by returning or by a panic
Terminated(thread) == thread \in {"exit", "panicked"}

\* once the channel is closed in status Playing the render thread ends, unless
\* the player is paused, seeks or quits first
EofTerminates ==
    (closed /\ play_status = "Playing")
        ~> (\/ Terminated(render_thread) /\ Terminated(reader_thread)
            \/ play_status = "Paused" \/ SeekOpen \/ ~Running)

\* C12: at end of file the decoder thread ends and closes the queue, what is
\* left in the queue are packets the reader has read from the file, and the
\* render thread ends by finding the closed queue empty.
C12_EofStopsPlayback ==
    /\ closed <=> Terminated(reader_thread)
    /\ closed => \A i \in 1..Len(queue) :
                     /\ queue[i].data = "read"
                     /\ \E n \in 1..Len(File) : queue[i].header = File[n]
    /\ Terminated(render_thread) =>
           render_thread = "exit" /\ closed /\ queue = <<>>


(***************************************************************************)
(* SpecDrain: the player sought, by a click on the progress bar, to the    *)
(* time the second subtitle of the file starts at; sub_log notes which     *)
(* subtitles the drain loop of that seek took.                             *)
(***************************************************************************)
\* the drain loop, sub_log noting the time sought
DrainPacketOfSeek == DrainTake(seek_arg)

\* the time the second subtitle of the file starts at
SubtitleClick ==
    LET S == {i \in 1..Len(File) : File[i].data_type = "Subtitle"}
    IN  File[CHOOSE i \in S : \A j \in S : j <= i].timestamp

\* main: a left click on the progress bar where the second subtitle starts
ClickOnSubtitle == Seek(SubtitleClick)

NextDrain ==
    \/ ReaderSteps
    \/ WaitStatus \/ DrainPacketOfSeek \/ DrainEnd \/ SetDiscardDone
    \/ RecvPacket \/ RecvClosed \/ SetVideoTime \/ WriteFrame
    \/ Resume \/ ClickOnSubtitle \/ SeekSteps

SpecDrain == Init /\ [][NextDrain]_vars

\* subtitle push n was made by the drain of a seek to a time inside the
\* subtitle's interval
DrainedForItsInterval(n) ==
    /\ sub_log[n].drained_for # NoSeek
    /\ sub_log[n].sub.starts_at <= sub_log[n].drained_for
    /\ sub_log[n].drained_for <= sub_log[n].sub.ends_at

\* the loop over subs puts subtitle s on a frame with this header, if s is
\* still in subs
OnFrame(s, header, index) ==
    /\ s.stream = index
    /\ s.starts_at <= header.timestamp + header.duration
    /\ header.timestamp <= s.ends_at + LineSlack

\* every subtitle packet the drain loop takes is pushed to subs
DrainPushesSubtitles ==
    [][(render_thread = "drain" /\ queue # <<>> /\ queue' = Tail(queue)
        /\ Head(queue).header.data_type = "Subtitle"
        /\ Head(queue).data = "read")
          => /\ Len(subs') = Len(subs) + 1
             /\ subs'[Len(subs')].starts_at = Head(queue).header.timestamp
             /\ sub_log'[Len(sub_log')].drained_for = seek_arg]_vars

\* C13: a subtitle taken from the queue by the drain of a seek to a time
\* inside its interval is on every frame of a packet of the file that is
\* emitted after that seek (and before another) and that the overlay loop puts
\* it on.
C13_DrainedSubtitleShownAfterSeek ==
    seeks <= 1 =>
        \A i \in 1..Len(output) : \A n \in 1..output[i].pushed :
            (/\ DrainedForItsInterval(n)
             /\ output[i].data = "read"
             /\ OnFrame(sub_log[n].sub, output[i].header, subtitle_index))
                => Shown(i, n)


(***************************************************************************)
(* SpecPipeline: one input packet run through a Pipeline (the FFToAnsi     *)
(* stage, then post_steps) and written by process_packet; the player's     *)
(* decoder thread then reads it from the file, as written or with the      *)
(* DCLE entry missing.                                                     *)
(***************************************************************************)
\* the payloads the FFToAnsi stage produces
PipelineInputs ==
    UNION {[1..n -> {0, 7}] : n \in 0..MaxLen}

\* the pipelines: up to MaxSteps compressors after the FFToAnsi stage
PipelineSteps ==
    UNION {[1..n -> {"Zstd", "Lz4"}] : n \in 0..MaxSteps}

\* what a codec writes for data: its runs as <<count, byte>> pairs (the
\* codecs themselves are libraries; this keeps that the output differs from
\* the input in content and length and that it can be undone)
RECURSIVE RunLengths(_)
RunLengths(data) ==
    IF data = <<>> THEN <<>>
    ELSE LET b == Head(data)
             n == CHOOSE k \in 1..Len(data) :
                      /\ \A i \in 1..k : data[i] = b
                      /\ k < Len(data) => data[k + 1] # b
         IN  <<n, b>> \o RunLengths(SubSeq(data, n + 1, Len(data)))

\* the data a sequence of <<count, byte>> pairs stands for
RECURSIVE RunLengthsExpanded(_)
RunLengthsExpanded(bytes) ==
    IF Len(bytes) < 2 THEN <<>>
    ELSE Fill(bytes[1], bytes[2])
            \o RunLengthsExpanded(SubSeq(bytes, 3, Len(bytes)))

\* first byte of a zstd frame
ZstdMagic == 40

\* compress_to_buffer (Zstd), compress_into (Lz4)
compress(step, data) ==
    IF step = "Zstd" THEN <<ZstdMagic>> \o RunLengths(data) ELSE RunLengths(data)

\* decompress_to_buffer (Zstd), decompress_into (Lz4): [ok, data]
decompress(mode, bytes) ==
    IF mode = "Zstd"
    THEN IF bytes # <<>> /\ bytes[1] = ZstdMagic
         THEN [ok |-> TRUE, data |-> RunLengthsExpanded(Tail(bytes))]
         ELSE [ok |-> FALSE, data |-> <<>>]
    ELSE [ok |-> TRUE, data |-> RunLengthsExpanded(bytes)]

\* LiteMap::insert: the entry is added or its value replaced
SideData_insert(sd, key, val) == (key :> val) @@ sd

\* FFToAnsi::process on cleared data: [packet, data, log, pre]
FFToAnsi_process(packet, input) ==
    [packet |-> [packet EXCEPT !.data_len = Len(input),
                               !.data_type = PipelineDataType(packet.stream)],
     data |-> input,
     log |-> <<>>,
     pre |-> <<>>]

\* the compressed length was written into DCLE
CompressedLenValue(uncompressed_len, compressed_len) == LE8(compressed_len)

\* (uncompressed_len as u64).to_le_bytes()
DecompressedLenValue(uncompressed_len, compressed_len) == LE8(uncompressed_len)

\* data_len was left as the stage before had set it
DataLenKept(data_len, compressed_data_len) == data_len

\* packet.data_len = compressed_data_len as u64
PostDataLen(data_len, compressed_data_len) == compressed_data_len

\* PostProcessor::post_process of ZstdCompressor and Lz4Compressor
post_process(step, st) ==
    LET compressed == compress(step, st.data)
        with_len == SideData_insert(st.packet.side_data, DECOMPRESSED_LEN,
                        DecompressedLenValue(Len(st.data), Len(compressed)))
        with_method == SideData_insert(with_len, COMPRESSION_METHOD,
                                       <<CompressionModeByte(step)>>)
    IN  [packet |-> [st.packet EXCEPT
                        !.side_data = with_method,
                        !.data_len = PostDataLen(st.packet.data_len,
                                                 Len(compressed))],
         data |-> compressed,
         log |-> st.log \o <<DECOMPRESSED_LEN, COMPRESSION_METHOD>>,
         pre |-> st.data]

\* Pipeline::run: the loop over post_steps
RECURSIVE Pipeline_run_steps(_, _)
Pipeline_run_steps(steps, st) ==
    IF steps = <<>> THEN st
    ELSE Pipeline_run_steps(Tail(steps), post_process(Head(steps), st))

\* the compression_mode main() writes into the stream's metadata, from which
\* the Reader takes the stream's decoder
TrackCompression(steps) == IF steps = <<>> THEN "None" ELSE steps[Len(steps)]

\* a missing DCLE was read as length 0
DecompressedLenOrZero(sd) ==
    IF DECOMPRESSED_LEN \in DOMAIN sd /\ Len(sd[DECOMPRESSED_LEN]) = 8
    THEN [ok |-> TRUE, len |-> ReadLE8(sd[DECOMPRESSED_LEN], 1)]
    ELSE [ok |-> TRUE, len |-> 0]

\* side_data.get(&DECOMPRESSED_LEN).and_then(try_into).map(from_le_bytes)
\* .ok_or(..): [ok, len]
DecompressedLen(sd) ==
    IF DECOMPRESSED_LEN \in DOMAIN sd /\ Len(sd[DECOMPRESSED_LEN]) = 8
    THEN [ok |-> TRUE, len |-> ReadLE8(sd[DECOMPRESSED_LEN], 1)]
    ELSE [ok |-> FALSE, len |-> 0]

\* DecoderProcessor::process of ZstdDecoder and Lz4Decoder: [ok, kind, data].
\* Lz4Decoder resizes scratch to the DCLE length and does not cut it to what
\* was decompressed; ZstdDecoder reserves that length.
DecoderProcessor_process(mode, packet, data) ==
    LET dl == DecompressedLen(packet.side_data)
        d  == decompress(mode, data)
    IN  IF ~dl.ok THEN [ok |-> FALSE, kind |-> "InvalidInput", data |-> data]
        ELSE IF ~d.ok \/ Len(d.data) > dl.len
        THEN [ok |-> FALSE, kind |-> "Other", data |-> data]
        ELSE [ok |-> TRUE, kind |-> "",
              data |-> IF mode = "Lz4"
                       THEN d.data \o Fill(dl.len - Len(d.data), 0)
                       ELSE d.data]

\* Reader::read_packet_data_into: [ok, kind, packet, data]
read_packet_data_into(bytes, mode) ==
    LET h == Packet_decode_from(bytes, 1) IN
    IF ~h.ok \/ h.packet.data_len > Len(bytes) - (h.pos - 1)
    THEN [ok |-> FALSE, kind |-> "UnexpectedEof", packet |-> <<>>, data |-> <<>>]
    ELSE LET data == SubSeq(bytes, h.pos, h.pos - 1 + h.packet.data_len) IN
         IF mode = "None"
         THEN [ok |-> TRUE, kind |-> "", packet |-> h.packet, data |-> data]
         ELSE LET r == DecoderProcessor_process(mode, h.packet, data) IN
              [ok |-> r.ok, kind |-> r.kind, packet |-> h.packet, data |-> r.data]

InitPipeline ==
    /\ overflow_checks = FALSE
    /\ ReaderIdle
    /\ DeltaIdle
    /\ EncoderIdle
    /\ PlayerIdle
    /\ PaletteIdle
    /\ AnsiIdle
    /\ JoinIdle
    /\ ArgsIdle
    /\ pkt = <<>>
    /\ wire = <<>>
    /\ wire_len = 0
    /\ pkt_out = <<>>
    /\ wire_pos = 0
    /\ ppc = "start"
    /\ post_steps \in PipelineSteps
    /\ input_data \in PipelineInputs
    /\ run_packet = <<>>
    /\ scratch = <<>>
    /\ insert_log = <<>>
    /\ pre_data = <<>>
    /\ file_bytes = <<>>
    /\ read_result = <<>>
    /\ plpc = "start"

pipelineRest ==
    <<overflow_checks, readerVars, deltaVars, encoderVars, pkt, wire, wire_len,
      pkt_out, wire_pos, ppc, paletteVars, ansiVars, joinVars, argsVars>>

\* ANSIEncoder::process_packet for an input of a stream with this pipeline:
\* scratch.clear(), encoder.run(..), packet_idx, encode_into(out),
\* out.write_all(&scratch)
ProcessPacketOfPipeline ==
    /\ plpc = "start"
    /\ \E stream \in {VideoStream, SubtitleStream} :
         LET built == Packet_builder(stream, 0, from_micros(40000))
             st == Pipeline_run_steps(post_steps, FFToAnsi_process(built, input_data))
             packet == [st.packet EXCEPT !.packet_idx = 1]
         IN  /\ run_packet' = packet
             /\ scratch' = st.data
             /\ insert_log' = st.log
             /\ pre_data' = st.pre
             /\ file_bytes' = Packet_encode_into(packet) \o st.data
    /\ plpc' = "written"
    /\ UNCHANGED <<post_steps, input_data, read_result, pipelineRest, playerVars>>

\* the player is given the file as it was written
OpenFile ==
    /\ plpc = "written"
    /\ plpc' = "opened"
    /\ UNCHANGED <<post_steps, input_data, run_packet, scratch, insert_log,
                   pre_data, file_bytes, read_result, pipelineRest, playerVars>>

\* the player is given a file whose packet of a compressed stream has no DCLE
\* entry
OpenFileWithoutDCLE ==
    /\ plpc = "written"
    /\ post_steps # <<>>
    /\ LET sd == run_packet.side_data
           kept == [t \in (DOMAIN sd) \ {DECOMPRESSED_LEN} |-> sd[t]]
       IN  file_bytes' =
               Packet_encode_into([run_packet EXCEPT !.side_data = kept])
                   \o scratch
    /\ plpc' = "opened"
    /\ UNCHANGED <<post_steps, input_data, run_packet, scratch, insert_log,
                   pre_data, read_result, pipelineRest, playerVars>>

\* the decoder thread: send_ref(), read_packet_data_into(&mut slot.data),
\* slot.header = packet.unwrap(); the slot is sent when it drops, also when
\* unwrap() panics, and the panic drops packet_tx
DecoderThreadRead ==
    /\ plpc = "opened"
    /\ LET r == read_packet_data_into(file_bytes, TrackCompression(post_steps)) IN
       /\ read_result' = r
       /\ IF r.ok
          THEN /\ queue' = Append(queue, [header |-> r.packet, data |-> r.data])
               /\ reader_thread' = "send_ref"
               /\ UNCHANGED closed
          ELSE /\ queue' = Append(queue, [header |-> DefaultHeader, data |-> r.data])
               /\ reader_thread' = "panicked"
               /\ closed' = TRUE
    /\ plpc' = "read"
    /\ UNCHANGED <<post_steps, input_data, run_packet, scratch, insert_log,
                   pre_data, file_bytes, pipelineRest,
                   play_status, current_time, video_time, subtitle_index,
                   reader_lock, time_locks, ring, send_slot, render_thread,
                   slot, subs, output, control, old_state, seek_arg, ops,
                   seek_entry_status, seeks, sub_log, clockRest, pause_time,
                   wait_start>>

NextPipeline ==
    ProcessPacketOfPipeline \/ OpenFile \/ OpenFileWithoutDCLE \/ DecoderThreadRead

SpecPipeline == InitPipeline /\ [][NextPipeline]_vars

\* the packet header in file_bytes and the position after it
WrittenHeader == Packet_decode_from(file_bytes, 1)

\* the player reads the file as process_packet wrote it
FileAsWritten == file_bytes = Packet_encode_into(run_packet) \o scratch

\* C14: the data_len in the header of a packet process_packet wrote is the
\* number of payload bytes written after the header, whatever the pipeline.
C14_DataLenIsPayloadLength ==
    plpc = "written" =>
        /\ WrittenHeader.ok
        /\ WrittenHeader.packet.data_len = Len(file_bytes) - (WrittenHeader.pos - 1)
        /\ SubSeq(file_bytes, WrittenHeader.pos, Len(file_bytes)) = scratch

\* a packet through two compressors, whose payload is longer than the input
C14_Witness ==
    /\ plpc = "written"
    /\ Len(post_steps) = 2
    /\ Len(input_data) = 3
    /\ WrittenHeader.ok
    /\ WrittenHeader.packet.data_len > Len(input_data)
    /\ WrittenHeader.packet.data_len = Len(scratch)


\* C15: after a compressor ran, DCLE holds the length of the payload it was
\* given as 8 little-endian bytes and CMPM its method byte; the player's
\* decoder of that method, given the packet as written, yields exactly that
\* payload, whose length is the DCLE value.
C15_CompressionRoundTrip ==
    post_steps # <<>> =>
        /\ plpc # "start" =>
              /\ run_packet.side_data[DECOMPRESSED_LEN] = LE8(Len(pre_data))
              /\ Len(run_packet.side_data[DECOMPRESSED_LEN]) = 8
              /\ run_packet.side_data[COMPRESSION_METHOD] =
                     <<CompressionModeByte(post_steps[Len(post_steps)])>>
        /\ plpc = "read" /\ FileAsWritten =>
              /\ read_result.ok
              /\ read_result.data = pre_data
              /\ Len(read_result.data) =
                     ReadLE8(read_result.packet.side_data[DECOMPRESSED_LEN], 1)

\* a payload of three bytes whose compressed form has another length, read
\* back by the player
C15_Witness ==
    /\ plpc = "read"
    /\ FileAsWritten
    /\ post_steps # <<>>
    /\ Len(pre_data) = 3
    /\ Len(scratch) # Len(pre_data)
    /\ read_result.ok
    /\ read_result.data = pre_data


\* the player was given a packet of a compressed stream without DCLE and the
\* decoder thread has tried to read it
ReadWithoutDCLE ==
    /\ plpc = "read"
    /\ post_steps # <<>>
    /\ ~FileAsWritten

RECURSIVE WireTagsLoop(_, _, _)
WireTagsLoop(bytes, pos, n) ==
    IF n = 0 \/ pos + 4 > Len(bytes) THEN <<>>
    ELSE <<SubSeq(bytes, pos, pos + 3)>>
            \o WireTagsLoop(bytes, pos + 5 + bytes[pos + 4], n - 1)

\* the tags of the packet header at the start of bytes, in wire order: the
\* side data follows stream, packet_idx, timestamp and duration
WireTags(bytes) == WireTagsLoop(bytes, 8 * 3 + 3, bytes[8 * 3 + 2])

\* the order in which the tags came to be in the side data
InsertionOrder == SubSeq(insert_log, 1, 2)

\* C17 as stated: the side-data entries are on the wire in the order in
\* which their tags were inserted (DCLE before CMPM).
C17_WireOrderIsInsertionOrder ==
    plpc = "written" /\ post_steps # <<>> => WireTags(file_bytes) = InsertionOrder

\* C17: the side-data entries are on the wire in ascending order of their
\* tags, each tag once: CMPM before DCLE, though the compressors insert DCLE
\* first.
C17_WireOrderIsTagOrder ==
    plpc = "written" /\ post_steps # <<>> =>
        /\ InsertionOrder = <<DECOMPRESSED_LEN, COMPRESSION_METHOD>>
        /\ WireTags(file_bytes) = <<COMPRESSION_METHOD, DECOMPRESSED_LEN>>

\* a packet through an Lz4 compressor is written with CMPM first
C17_Witness ==
    /\ plpc = "written"
    /\ post_steps = <<"Lz4">>
    /\ insert_log = <<DECOMPRESSED_LEN, COMPRESSION_METHOD>>
    /\ WireTags(file_bytes) = <<COMPRESSION_METHOD, DECOMPRESSED_LEN>>
    /\ WrittenHeader.ok
    /\ DOMAIN WrittenHeader.packet.side_data = {COMPRESSION_METHOD, DECOMPRESSED_LEN}


(***************************************************************************)
(* SpecPalette: the palette and the reverse map as colorful/build.rs       *)
(* builds them, for the themes the build can see.                          *)
(***************************************************************************)
\* prettypretty's VGA_COLORS after to_24bit(), ANSI colours 0..15
VGA_COLORS ==
    << <<0, 0, 0>>, <<170, 0, 0>>, <<0, 170, 0>>, <<170, 85, 0>>,
       <<0, 0, 170>>, <<170, 0, 170>>, <<0, 170, 170>>, <<170, 170, 170>>,
       <<85, 85, 85>>, <<255, 85, 85>>, <<85, 255, 85>>, <<255, 255, 85>>,
       <<85, 85, 255>>, <<255, 85, 255>>, <<85, 255, 255>>, <<255, 255, 255>> >>

\* what Theme::query gives on a terminal with xterm's default colours
XtermTheme ==
    << <<0, 0, 0>>, <<205, 0, 0>>, <<0, 205, 0>>, <<205, 205, 0>>,
       <<0, 0, 238>>, <<205, 0, 205>>, <<0, 205, 205>>, <<229, 229, 229>>,
       <<127, 127, 127>>, <<255, 0, 0>>, <<0, 255, 0>>, <<255, 255, 0>>,
       <<92, 92, 255>>, <<255, 0, 255>>, <<0, 255, 255>>, <<255, 255, 255>> >>

\* main: theme is the queried theme, or VGA_COLORS without a terminal
Themes == {VGA_COLORS, XtermTheme}

\* xterm216_to_rgb: convert
convert(value) == IF value = 0 THEN 0 ELSE 55 + 40 * value

xterm216_to_rgb(idx) ==
    LET b0 == idx - 16
        r == b0 \div 36
        b1 == b0 - r * 36
        g == b1 \div 6
        b == b1 - g * 6
    IN  <<convert(r), convert(g), convert(b)>>

gray_to_rgb(idx) ==
    LET level == 8 + 10 * (idx - 232) IN <<level, level, level>>

\* the match on idx in main's loop
PaletteColor(th, idx) ==
    IF idx <= 15 THEN th[idx + 1]
    ELSE IF idx <= 231 THEN xterm216_to_rgb(idx)
    ELSE gray_to_rgb(idx)

\* HashMap::insert: the value a key already has is replaced
HashMap_insert(map, key, value) == (key :> value) @@ map

\* AnsiColorMap::reverse_lookup
reverse_lookup(color) == reverse_palette[color]

paletteRest ==
    <<overflow_checks, readerVars, deltaVars, encoderVars, playerVars, pkt, wire,
      wire_len, pkt_out, wire_pos, ppc, pipelineVars, ansiVars, joinVars, argsVars>>

InitPalette ==
    /\ overflow_checks = FALSE
    /\ ReaderIdle
    /\ DeltaIdle
    /\ EncoderIdle
    /\ PlayerIdle
    /\ PipelineIdle
    /\ AnsiIdle
    /\ JoinIdle
    /\ ArgsIdle
    /\ pkt = <<>>
    /\ wire = <<>>
    /\ wire_len = 0
    /\ pkt_out = <<>>
    /\ wire_pos = 0
    /\ ppc = "start"
    /\ theme \in Themes
    /\ palette = <<>>
    /\ reverse_palette = <<>>
    /\ inserted = 0
    /\ bpc = "palette"

\* one pass of `for idx in 0..=u8::MAX`
PushPalette ==
    /\ bpc = "palette"
    /\ palette' = Append(palette, PaletteColor(theme, Len(palette)))
    /\ bpc' = IF Len(palette) = 255 THEN "reverse" ELSE "palette"
    /\ UNCHANGED <<theme, reverse_palette, inserted, paletteRest>>

\* HashMap::from_iter(palette.iter().enumerate().map(|(idx, v)| (*v, idx))):
\* the next pair is inserted
InsertReverse ==
    /\ bpc = "reverse"
    /\ reverse_palette' =
           HashMap_insert(reverse_palette, palette[inserted + 1], inserted)
    /\ inserted' = inserted + 1
    /\ bpc' = IF inserted + 1 = Len(palette) THEN "done" ELSE "reverse"
    /\ UNCHANGED <<theme, palette, paletteRest>>

NextPalette == PushPalette \/ InsertReverse

SpecPalette == InitPalette /\ [][NextPalette]_vars

\* C18: for every palette index i the reverse map gives i for palette[i].
C18_ReverseMapInvertsPalette ==
    bpc = "done" =>
        \A i \in 0..255 : reverse_lookup(palette[i + 1]) = i

\* what holds of the palette built: the cube and the gray ramp are as stated
\* and pairwise distinct, and the reverse map gives the last index of a colour
PaletteCubeAndRampDistinct ==
    bpc = "done" =>
        /\ Len(palette) = 256
        /\ \A i \in 16..231 :
              \A c \in 1..3 : palette[i + 1][c] \in {0, 95, 135, 175, 215, 255}
        /\ \A i \in 232..255 : palette[i + 1] = gray_to_rgb(i)
        /\ \A i, j \in 16..255 : i # j => palette[i + 1] # palette[j + 1]
        /\ \A i \in 0..255 :
              /\ palette[reverse_lookup(palette[i + 1]) + 1] = palette[i + 1]
              /\ reverse_lookup(palette[i + 1]) >= i


(***************************************************************************)
(* SpecAnsi: ToAnsi::to_ansi on an image of palette indices (Luma<u8>),    *)
(* one step per cell of two pixels.                                        *)
(***************************************************************************)
\* the pixel values of the images
Lumas == {0, 1}

\* the images: width 1..MaxWidth, height 1..MaxHeight
Images ==
    UNION {[width : {w}, height : {h}, pixels : [(0..(w - 1)) \X (0..(h - 1)) -> Lumas]]
              : <<w, h>> \in (1..MaxWidth) \X (1..MaxHeight)}

get_pixel(img, x, y) == img.pixels[<<x, y>>]

\* the colour was written for every cell
is_always(last, pixel) == TRUE

\* the colour was written only after a different colour
is_some_and_ne(last, pixel) == last # <<>> /\ last[1] # pixel

\* last.is_none_or(|v| v != pixel), with None as <<>> and Some(v) as <<v>>
is_none_or_ne(last, pixel) == last = <<>> \/ last[1] # pixel

\* AnsiPixel::fg_code, bg_code for Luma<u8>: PALETTE_FG_CODES[v] is
\* ESC [ 38;5;v m and PALETTE_BG_CODES[v] is ESC [ 48;5;v m
fg_code(pixel) == [kind |-> "fg", color |-> pixel]

bg_code(pixel) == [kind |-> "bg", color |-> pixel]

\* b"\xE2\x96\x80", the upper half block
Glyph == [kind |-> "glyph", color |-> 0]

\* b"\x1b[1E"
NextLine == [kind |-> "next_line", color |-> 0]

ansiRest ==
    <<overflow_checks, readerVars, deltaVars, encoderVars, playerVars, pkt, wire,
      wire_len, pkt_out, wire_pos, ppc, pipelineVars, paletteVars, joinVars, argsVars>>

InitAnsi ==
    /\ overflow_checks = FALSE
    /\ ReaderIdle
    /\ DeltaIdle
    /\ EncoderIdle
    /\ PlayerIdle
    /\ PipelineIdle
    /\ PaletteIdle
    /\ JoinIdle
    /\ ArgsIdle
    /\ pkt = <<>>
    /\ wire = <<>>
    /\ wire_len = 0
    /\ pkt_out = <<>>
    /\ wire_pos = 0
    /\ ppc = "start"
    /\ image \in Images
    /\ ansi_frame = <<>>
    /\ last_upper = <<>>
    /\ last_lower = <<>>
    /\ ay = 0
    /\ ax = 0
    /\ apc = "row"

\* for y in (0..self.height() - 1).step_by(2): the next row starts
AnsiRow ==
    /\ apc = "row"
    /\ ay < image.height - 1
    /\ ax' = 0
    /\ apc' = "cell"
    /\ UNCHANGED <<image, ansi_frame, last_upper, last_lower, ay, ansiRest>>

\* the body of `for x in 0..self.width()`
AnsiCell ==
    /\ apc = "cell"
    /\ ax < image.width
    /\ LET upper == get_pixel(image, ax, ay)
           lower == get_pixel(image, ax, ay + 1)
       IN  /\ ansi_frame' = ansi_frame
                  \o (IF is_none_or_ne(last_upper, upper) THEN <<fg_code(upper)>> ELSE <<>>)
                  \o (IF is_none_or_ne(last_lower, lower) THEN <<bg_code(lower)>> ELSE <<>>)
                  \o <<Glyph>>
           /\ last_upper' = <<upper>>
           /\ last_lower' = <<lower>>
    /\ ax' = ax + 1
    /\ UNCHANGED <<image, ay, apc, ansiRest>>

\* frame.write_all(b"\x1b[1E") after the last cell of a row
AnsiEndRow ==
    /\ apc = "cell"
    /\ ax = image.width
    /\ ansi_frame' = Append(ansi_frame, NextLine)
    /\ ay' = ay + 2
    /\ apc' = "row"
    /\ UNCHANGED <<image, last_upper, last_lower, ax, ansiRest>>

\* the range is exhausted: Ok(())
AnsiReturn ==
    /\ apc = "row"
    /\ ay >= image.height - 1
    /\ apc' = "done"
    /\ UNCHANGED <<image, ansi_frame, last_upper, last_lower, ay, ax, ansiRest>>

NextAnsi == AnsiRow \/ AnsiCell \/ AnsiEndRow \/ AnsiReturn

SpecAnsi == InitAnsi /\ [][NextAnsi]_vars

\* every pixel of the image has the same colour
Uniform(img) ==
    \A p, q \in DOMAIN img.pixels : img.pixels[p] = img.pixels[q]

\* the positions in ansi_frame of this kind
Written(kind) == {n \in 1..Len(ansi_frame) : ansi_frame[n].kind = kind}

\* C19: the output for a uniform image of width >= 1 and height >= 2 has
\* exactly one foreground and one background SGR, both before the first
\* glyph.
C19_UniformFrameOneSgrPair ==
    apc = "done" /\ Uniform(image) /\ image.width >= 1 /\ image.height >= 2 =>
        /\ Written("fg") = {1}
        /\ Written("bg") = {2}
        /\ \A n \in Written("glyph") : n > 2
        /\ Cardinality(Written("glyph")) = image.width * ((image.height) \div 2)

\* a uniform image of two rows of two cells has been written
C19_Witness ==
    /\ apc = "done"
    /\ Uniform(image)
    /\ image.width = 2
    /\ image.height = 4
    /\ Cardinality(Written("glyph")) = 4
    /\ Cardinality(Written("next_line")) = 2
    /\ Cardinality(Written("fg")) = 1
    /\ Cardinality(Written("bg")) = 1

\* the position in ansi_frame of the k-th glyph
GlyphPos(k) ==
    CHOOSE n \in Written("glyph") :
        Cardinality({m \in Written("glyph") : m <= n}) = k

\* the colour codes written between the (k-1)-th glyph and the k-th
SgrBefore(k) ==
    LET from == IF k = 1 THEN 1 ELSE GlyphPos(k - 1) + 1
        IsSgr(code) == code.kind \in {"fg", "bg"}
    IN  SelectSeq(SubSeq(ansi_frame, from, GlyphPos(k) - 1), IsSgr)

\* the upper and the lower pixel of the k-th cell, cells counted along each
\* pair of rows and then down the pairs
UpperOf(k) == get_pixel(image, (k - 1) % image.width, 2 * ((k - 1) \div image.width))

LowerOf(k) == get_pixel(image, (k - 1) % image.width, 2 * ((k - 1) \div image.width) + 1)

\* C24: to_ansi writes W * floor(H/2) glyphs and floor(H/2) next-line
\* sequences; before the k-th glyph it writes the foreground code iff k = 1
\* or the upper pixel differs from the upper pixel of cell k - 1, and then
\* the background code iff k = 1 or the lower pixel differs from the lower
\* pixel of cell k - 1, cell k - 1 being the last cell of the previous pair
\* of rows when cell k starts a pair.
C24_GlyphsAndSgrPerCell ==
    apc = "done" =>
        /\ Cardinality(Written("glyph")) = image.width * (image.height \div 2)
        /\ Cardinality(Written("next_line")) = image.height \div 2
        /\ \A k \in 1..Cardinality(Written("glyph")) :
              SgrBefore(k) =
                  (IF k = 1 \/ UpperOf(k) # UpperOf(k - 1)
                      THEN <<fg_code(UpperOf(k))>> ELSE <<>>)
                  \o (IF k = 1 \/ LowerOf(k) # LowerOf(k - 1)
                      THEN <<bg_code(LowerOf(k))>> ELSE <<>>)

\* an image of two pairs of rows has been written where the second pair
\* starts with the upper colour the first pair ended with and a new lower
\* colour
C24_Witness ==
    /\ apc = "done"
    /\ image.height = 4
    /\ image.width = 2
    /\ UpperOf(3) = UpperOf(2)
    /\ LowerOf(3) # LowerOf(2)
    /\ SgrBefore(3) = <<bg_code(LowerOf(3))>>


(***************************************************************************)
(* SpecJoin: the player with a caller that, after resume() and possibly    *)
(* pause(), calls PlayerControl::join.                                     *)
(***************************************************************************)
\* JoinHandle::join: Err with the panic payload if the thread panicked
JoinHandle_join(thread) == IF thread = "panicked" THEN "Err" ELSE "Ok"

\* PlayerControl::join: both results are dropped, the function returns ()
PlayerControl_join(reader_result, render_result) == "()"

joinRest ==
    <<overflow_checks, readerVars, deltaVars, encoderVars, playerVars, pkt, wire,
      wire_len, pkt_out, wire_pos, ppc, pipelineVars, paletteVars, ansiVars,
      argsVars>>

\* join(self) consumes the PlayerControl: no other call follows
ResumeBeforeJoin == join_pc = "none" /\ Resume

PauseBeforeJoin == join_pc = "none" /\ Pause

\* PlayerControl::join is called
CallJoin ==
    /\ join_pc = "none"
    /\ control = "idle"
    /\ join_pc' = "reader_thread"
    /\ UNCHANGED <<join_ret, joinRest>>

\* self.reader_thread.join() returns once the decoder thread has ended
JoinReaderThread ==
    /\ join_pc = "reader_thread"
    /\ Terminated(reader_thread)
    /\ join_pc' = "render_thread"
    /\ UNCHANGED <<join_ret, joinRest>>

\* self.render_thread.join() returns once the render thread has ended, and
\* join returns
JoinRenderThread ==
    /\ join_pc = "render_thread"
    /\ Terminated(render_thread)
    /\ join_ret' = PlayerControl_join(JoinHandle_join(reader_thread),
                                      JoinHandle_join(render_thread))
    /\ join_pc' = "returned"
    /\ UNCHANGED joinRest

NextJoin ==
    \/ ReaderSteps
    \/ WaitStatus \/ RecvPacket \/ RecvClosed \/ SetVideoTime \/ WriteFrame
    \/ ResumeBeforeJoin \/ PauseBeforeJoin
    \/ CallJoin \/ JoinReaderThread \/ JoinRenderThread

SpecJoin == Init /\ [][NextJoin]_vars

\* C20: when a thread has ended by a fatal error and join has returned, join
\* has reported the error to its caller.
C20_JoinReportsFatalError ==
    join_pc = "returned"
        /\ "Err" \in {JoinHandle_join(reader_thread), JoinHandle_join(render_thread)}
    => join_ret = "Err"

\* what holds of join: it returns only after both threads have ended, and
\* what it returns is () whatever became of them
JoinReturnsUnit ==
    join_pc = "returned" =>
        /\ Terminated(reader_thread)
        /\ Terminated(render_thread)
        /\ join_ret = "()"


\* the threads and join() keep running
FairSpecJoin ==
    /\ SpecJoin
    /\ WF_vars(ReaderSteps)
    /\ WF_vars(WaitStatus \/ RecvPacket \/ RecvClosed \/ SetVideoTime \/ WriteFrame)
    /\ WF_vars(JoinReaderThread \/ JoinRenderThread)

\* a join() that was called returns
JoinCompletes == (join_pc = "reader_thread") ~> (join_pc = "returned")

\* a join() that was called while the status is Playing returns
JoinCompletesWhilePlaying ==
    (join_pc = "reader_thread" /\ play_status = "Playing") ~> (join_pc = "returned")


(***************************************************************************)
(* SpecArgs: EncoderArgs::parse() for the options whose value is parsed    *)
(* with from_str and whose default is rendered with Display.               *)
(***************************************************************************)
MatrixSizes == {"Two", "Four", "Eight"}

\* impl Display for MatrixSize
MatrixSize_to_string(m) ==
    CASE m = "Eight" -> "two"
      [] m = "Four" -> "four"
      [] m = "Two" -> "eight"

\* impl FromStr for MatrixSize: [ok, value]
MatrixSize_from_str(s) ==
    IF s \in {"two", "2", "2x2"} THEN [ok |-> TRUE, value |-> "Two"]
    ELSE IF s \in {"four", "4", "4x4"} THEN [ok |-> TRUE, value |-> "Four"]
    ELSE IF s \in {"eight", "8", "8x8"} THEN [ok |-> TRUE, value |-> "Eight"]
    ELSE [ok |-> FALSE, value |-> "Invalid matrix size!"]

\* impl Display for ColorMode
ColorMode_to_string(m) == IF m = "Full" THEN "full" ELSE "8bit"

\* impl FromStr for ColorMode
ColorMode_from_str(s) ==
    IF s \in {"full", "rgb", "true", "24bit"} THEN [ok |-> TRUE, value |-> "Full"]
    ELSE IF s \in {"eightbit", "8bit", "eight", "256", "256color"}
    THEN [ok |-> TRUE, value |-> "EightBit"]
    ELSE [ok |-> FALSE, value |-> "Invalid color mode!"]

\* impl Display for CompressionMode
CompressionMode_to_string(m) ==
    CASE m = "None" -> "none"
      [] m = "Zstd" -> "zstd"
      [] m = "Lz4" -> "lz4"

\* impl FromStr for CompressionMode
CompressionMode_from_str(s) ==
    IF s \in {"none", "null"} THEN [ok |-> TRUE, value |-> "None"]
    ELSE IF s \in {"zst", "zstd"} THEN [ok |-> TRUE, value |-> "Zstd"]
    ELSE IF s = "lz4" THEN [ok |-> TRUE, value |-> "Lz4"]
    ELSE [ok |-> FALSE, value |-> "Invalid compression mode!"]

ArgOptions == {"color_mode", "matrix_size", "compression_mode"}

\* #[arg(default_value_t = ..)]: the default, rendered with Display
DefaultValue(opt) ==
    CASE opt = "color_mode" -> ColorMode_to_string("Full")
      [] opt = "matrix_size" -> MatrixSize_to_string("Eight")
      [] opt = "compression_mode" -> CompressionMode_to_string("Lz4")

\* PossibleValuesParser::new([..])
PossibleValues(opt) ==
    CASE opt = "color_mode" -> {"full", "8bit"}
      [] opt = "matrix_size" -> {"two", "four", "eight"}
      [] opt = "compression_mode" -> {"none", "zstd", "lz4"}

\* .try_map(|v| X::from_str(&v))
FromStrOf(opt, s) ==
    CASE opt = "color_mode" -> ColorMode_from_str(s)
      [] opt = "matrix_size" -> MatrixSize_from_str(s)
      [] opt = "compression_mode" -> CompressionMode_from_str(s)

\* value_parser of the option on the string given, or on the default
ValueParser(opt, given) ==
    LET s == IF given = "absent" THEN DefaultValue(opt) ELSE given IN
    IF s \in PossibleValues(opt) THEN FromStrOf(opt, s)
    ELSE [ok |-> FALSE, value |-> "invalid value"]

\* the command lines: every option absent, a possible value, or another
\* string its from_str accepts
CommandLines ==
    [color_mode : {"absent", "full", "8bit", "rgb"},
     matrix_size : {"absent", "two", "four", "eight", "8"},
     compression_mode : {"absent", "none", "zstd", "lz4", "zst"}]

argsRest ==
    <<overflow_checks, readerVars, deltaVars, encoderVars, playerVars, pkt, wire,
      wire_len, pkt_out, wire_pos, ppc, pipelineVars, paletteVars, ansiVars,
      joinVars>>

InitArgs ==
    /\ overflow_checks = FALSE
    /\ ReaderIdle
    /\ DeltaIdle
    /\ EncoderIdle
    /\ PlayerIdle
    /\ PipelineIdle
    /\ PaletteIdle
    /\ AnsiIdle
    /\ JoinIdle
    /\ pkt = <<>>
    /\ wire = <<>>
    /\ wire_len = 0
    /\ pkt_out = <<>>
    /\ wire_pos = 0
    /\ ppc = "start"
    /\ argv \in CommandLines
    /\ cli = <<>>
    /\ cpc = "parse"

\* EncoderArgs::parse(): one option gets its value
ParseOption ==
    /\ cpc = "parse"
    /\ \E opt \in ArgOptions \ DOMAIN cli :
         LET r == ValueParser(opt, argv[opt]) IN
         /\ r.ok
         /\ cli' = (opt :> r.value) @@ cli
    /\ UNCHANGED <<argv, cpc, argsRest>>

\* EncoderArgs::parse(): an option's value is refused, the process exits
ParseError ==
    /\ cpc = "parse"
    /\ \E opt \in ArgOptions \ DOMAIN cli : ~ValueParser(opt, argv[opt]).ok
    /\ cpc' = "error"
    /\ UNCHANGED <<argv, cli, argsRest>>

\* EncoderArgs::parse() returns
ParseDone ==
    /\ cpc = "parse"
    /\ DOMAIN cli = ArgOptions
    /\ cpc' = "done"
    /\ UNCHANGED <<argv, cli, argsRest>>

NextArgs == ParseOption \/ ParseError \/ ParseDone

SpecArgs == InitArgs /\ [][NextArgs]_vars

\* C21: the matrix size parsed from the command line is displayed as the
\* string that parses back to it, and without --matrix-size it is Eight.
C21_MatrixSizeDisplayRoundTrip ==
    cpc = "done" =>
        /\ MatrixSize_from_str(MatrixSize_to_string(cli.matrix_size))
               = [ok |-> TRUE, value |-> cli.matrix_size]
        /\ argv.matrix_size = "absent" => cli.matrix_size = "Eight"

\* what holds of the options: Four is the one matrix size whose display
\* parses back to it, a given possible value is parsed as named, and the
\* other two options are displayed as they are parsed
ArgsDisplayedAsParsed ==
    cpc = "done" =>
        /\ cli.matrix_size \in MatrixSizes
        /\ (MatrixSize_from_str(MatrixSize_to_string(cli.matrix_size)).value
                = cli.matrix_size) <=> cli.matrix_size = "Four"
        /\ argv.matrix_size = "absent" => cli.matrix_size = "Two"
        /\ argv.matrix_size = "eight" => cli.matrix_size = "Eight"
        /\ ColorMode_from_str(ColorMode_to_string(cli.color_mode)).value
               = cli.color_mode
        /\ CompressionMode_from_str(CompressionMode_to_string(cli.compression_mode)).value
               = cli.compression_mode


\* the byte offset in `out`, from the start of the packet region, of the
\* first header byte of packet n
RECURSIVE OffsetInOut(_)
OffsetInOut(n) ==
    IF n = 1 THEN 0
    ELSE OffsetInOut(n - 1) + Len(Packet_encode_into(out[n - 1].header))
            + out[n - 1].payload_len

\* entry e of the seek table points at the first header byte of a packet
\* written for one of these streams with the entry's timestamp
PointsAtPacketOf(e, streams) ==
    \E n \in 1..Len(out) :
        /\ OffsetInOut(n) = e.location
        /\ out[n].header.stream \in streams
        /\ as_micros(out[n].header.timestamp) = e.ts

\* C22: every entry of the seek table the encoder builds for the video
\* stream points at the first header byte, counted from the start of the
\* packet region, of a packet of the video stream with the entry's ts.
C22_EntriesPointAtVideoPackets ==
    epc = "running" =>
        \A i \in 1..Len(entries) : PointsAtPacketOf(entries[i], {VideoStream})

\* what holds of the entries: each points at the first header byte of a
\* packet with its ts, of the video stream or of another stream with a
\* pipeline
EntriesPointAtPackets ==
    epc = "running" =>
        \A i \in 1..Len(entries) : PointsAtPacketOf(entries[i], encoders)

\* the call of process_packet made in this step has an input of stream s
CalledWithStream(s) ==
    /\ fed' = fed + 1
    /\ s \in DOMAIN src_last'
    /\ src_last'[s] # SrcLast(s)

\* C25: a call of process_packet for an input whose stream has no pipeline
\* in `encoders` returns Ok and leaves the output, bytes_written, the seek
\* table and the next packet_idx of every stream as they were.
C25_UnregisteredStreamIgnored ==
    [][\A s \in SourceStreams :
          CalledWithStream(s) /\ s \notin encoders =>
              /\ epc' = "running"
              /\ UNCHANGED <<out, bytes_written, entries, last_recorded,
                             stream_packet_idx>>]_vars

\* a packet of the video stream was written and then an input of a stream
\* without pipeline was processed
C25_Witness ==
    /\ fed = 2
    /\ epc = "running"
    /\ Len(out) = 1
    /\ out[1].header.stream = VideoStream
    /\ bytes_written > 0
    /\ OtherStream \in DOMAIN src_last
    /\ DOMAIN stream_packet_idx = {VideoStream}


(***************************************************************************)
(* SpecSeekClock: the player with seeks during which the wall clock        *)
(* advances.                                                               *)
(***************************************************************************)
\* wall time passes while seek() runs
TickInSeek ==
    /\ control \in {"seek_reader", "seek_wait"}
    /\ now < wait_start + TickStep
    /\ Tick

\* the first seek main makes
FirstSeek == seeks = 0 /\ (ClickSeek \/ SeekForward \/ SeekBackwards)

NextSeekClock ==
    \/ ReaderSteps
    \/ RenderSteps
    \/ SeekSteps
    \/ Resume \/ FirstSeek
    \/ TickInSeek

SpecSeekClock == Init /\ [][NextSeekClock]_vars

\* the steps of one seek(): the call, reader.seek and the shift by delta,
\* the wait, the return
SeekCalled == control = "idle" /\ control' = "seek_reader"

SeekShifted == control = "seek_reader" /\ control' = "seek_wait"

SeekWaiting == control = "seek_wait" /\ control' = "seek_wait"

SeekReturned == control = "seek_wait" /\ control' = "idle"

\* C23: a seek() that finds video_time = v and gets the timestamp a from the
\* reader moves the origin by v - a, whatever its sign, and when it returns
\* by the wall time w that has passed since it was called; nothing else
\* moves the origin or v during the seek.
C23_SeekShiftsOrigin ==
    [][/\ SeekCalled => wait_start' = now /\ current_time' = current_time
       /\ SeekShifted =>
            /\ current_time' = current_time + video_time - from_micros(seek_ret')
            /\ UNCHANGED <<video_time, wait_start>>
       /\ SeekWaiting => UNCHANGED <<current_time, video_time, wait_start>>
       /\ SeekReturned =>
            /\ current_time' = current_time + (now - wait_start)
            /\ UNCHANGED video_time]_vars

\* a seek forward (v < a) is about to return after wall time has passed
C23_Witness ==
    /\ control = "seek_wait"
    /\ play_status = "DiscardDone"
    /\ as_micros(video_time) < seek_ret
    /\ now > wait_start



(***************************************************************************)
(* The end of a seek.                                                      *)
(***************************************************************************)
\* C26: every call of PlayerControl::seek made while the decoder thread and
\* the render thread run comes to an end when every thread that can take a
\* step does take it: the render thread sets DiscardDone and seek restores
\* the status (or Reader::seek fails in it).
C26_SeekReturns == SeekOpen ~> ~SeekOpen

\* seek() waits for DiscardDone with the reader lock and the two time locks
\* held, and neither the decoder thread nor the render thread can take a step
SeekStuck ==
    /\ control = "seek_wait"
    /\ play_status = "DiscardRequest"
    /\ ~ENABLED (ReaderSteps \/ RenderSteps)



(***************************************************************************)
(* The frames after a seek, in SpecDrain: every seek there is to the time  *)
(* of a seek-table entry, so every packet read after a seek has at least   *)
(* that timestamp.                                                         *)
(***************************************************************************)
\* this step writes a frame of a packet of the file
FrameWritten ==
    /\ Len(output') = Len(output) + 1
    /\ output'[Len(output')].data = "read"

\* C27: after seek() has returned, every frame written is of a packet the
\* decoder thread read after the reader was repositioned; no frame of a
\* packet that lies before the position sought is written then.
C27_FramesAfterSeekReadAfterSeek ==
    [][(seeks >= 1 /\ control = "idle" /\ FrameWritten) =>
           output'[Len(output')].header.timestamp >= SubtitleClick]_vars

\* every packet read after a seek is of the position sought or later
ReadsAfterSeekFromPosition ==
    [][(seeks >= 1 /\ reader_thread = "read" /\ reader_thread' = "store") =>
           send_slot'.timestamp >= SubtitleClick]_vars



(***************************************************************************)
(* Seeking past the last entry, in SpecSeek.                               *)
(***************************************************************************)
\* C28: on a table that is not empty Reader::seek(t), t >= 0, returns Ok and
\* does not index past the end of the table; for t above the timestamp of
\* the last entry it selects the last entry.
C28_SeekPastEndSelectsLast ==
    (spc # "idle" /\ seektable # <<>> /\ seek_time >= 0) =>
        /\ spc = "done"
        /\ seek_time > seektable[Len(seektable)].ts =>
              /\ seek_ret = seektable[Len(seektable)].ts
              /\ reader_pos = seektable[Len(seektable)].location + start_of_packets

\* Reader::seek panics exactly for the times above the last entry's
SeekPanicsPastEnd ==
    (spc # "idle" /\ seektable # <<>>) =>
        (spc = "panicked" <=> seek_time > seektable[Len(seektable)].ts)



(***************************************************************************)
(* resume() without a pause, in SpecClock.                                 *)
(***************************************************************************)
\* this step is a call of resume() by the 'r' key
ResumeCalled ==
    /\ control = "idle"
    /\ control' = "idle"
    /\ ops' = ops + 1
    /\ play_status' = "Playing"

\* C29: resume() called in status Playing leaves current_time, the origin
\* of the wall clock, as it is.
C29_ResumeWhilePlayingKeepsOrigin ==
    [][(ResumeCalled /\ play_status = "Playing") =>
           current_time' = current_time]_vars

\* every resume() moves the origin by the time since pause_time was set
ResumeAddsTimeSincePauseTime ==
    [][ResumeCalled => current_time' = current_time + (now - pause_time)]_vars



(***************************************************************************)
(* SpecPause: the player with pause_mark noting, for the time the status   *)
(* is Paused by PlayerControl::new or by pause(), how many frames were     *)
(* written and where the render thread stood when that time began.         *)
(***************************************************************************)
\* the status is not Paused by new() or pause(): resume() was called since
NoMark == [frames |-> 0, render |-> "none"]

\* main: the 'p' key
PauseMarked ==
    /\ pause
    /\ pause_mark' = IF play_status = "Paused"
                     THEN pause_mark
                     ELSE [frames |-> Len(output), render |-> render_thread]
    /\ UNCHANGED <<paused_at, origin_at_pause, claimed_origin>>

\* main: resume() before the loop, and the 'r' key
ResumeMarked ==
    /\ resume
    /\ pause_mark' = NoMark
    /\ UNCHANGED <<paused_at, origin_at_pause, claimed_origin>>

NextPause ==
    \/ ReaderSteps \/ RenderSteps \/ SeekSteps
    \/ ResumeMarked \/ PauseMarked \/ ClickSeek

SpecPause == Init /\ [][NextPause]_vars

\* the frames written since the status became Paused
FramesSincePause == Len(output) - pause_mark.frames

\* C30 as stated: no frame is written before the first resume(), and from
\* pause() to the next resume() at most one frame is written, which is one
\* the render thread had taken from the queue when pause() returned.
C30_PausedWritesOnlyDequeued ==
    pause_mark # NoMark =>
        FramesSincePause <=
            (IF pause_mark.render \in {"video_time", "current_time"} THEN 1 ELSE 0)

\* C30, amended: no frame is written before the first resume(), and from
\* pause() to the next resume() at most one frame is written, and only if
\* the render thread had seen the status Playing and not yet written a
\* frame for it when pause() returned: it had taken a packet from the
\* queue, or was about to receive one.
C30_PausedWritesOneFrameOfPlaying ==
    pause_mark # NoMark =>
        FramesSincePause <=
            (IF pause_mark.render \in {"recv", "video_time", "current_time"}
             THEN 1 ELSE 0)

\* the render thread takes a packet for a frame only after it has read the
\* status Playing
RecvOnlyAfterPlaying ==
    [][/\ (render_thread = "wait" /\ render_thread' = "recv")
             => play_status = "Playing"
       /\ render_thread' = "recv" => render_thread \in {"wait", "recv"}
       /\ render_thread' = "video_time" => render_thread \in {"recv", "video_time"}]_vars

\* paused after a frame was written while playing; the render thread wrote
\* the frame it held when pause() returned and now waits, with a packet in
\* the queue
C30_Witness ==
    /\ play_status = "Paused"
    /\ pause_mark.render = "current_time"
    /\ pause_mark.frames >= 1
    /\ FramesSincePause = 1
    /\ render_thread = "wait"
    /\ queue # <<>>

====
